---- MODULE Spec2Model ----
(***************************************************************************)
(* Model of the plyr.fm moderation labeler: the signed label log           *)
(* (LabelDb over PostgreSQL), the emission handlers (emit_label,           *)
(* resolve_flag), the live broadcast feed (tokio::sync::broadcast), the    *)
(* subscribeLabels session (handle_subscribe) and the derived-status       *)
(* queries (get_active_labels, get_pending_flags).                         *)
(***************************************************************************)
EXTENDS Integers, Sequences, FiniteSets, TLC

VARIABLES
    labels,       \* table `labels`: the committed rows [seq, uri, val, neg]
    seq_counter,  \* last value drawn from the BIGSERIAL sequence of labels.seq
    burned,       \* history: sequence values drawn by an INSERT that then failed
    context,      \* table `label_context`: uri -> row, or NoContext
    emit,         \* one record per emission request task (emit_label / resolve_flag)
    sent,         \* every message accepted by the broadcast channel, in send order
    sub,          \* one record per subscribeLabels session (handle_subscribe)
    reader,       \* one task running get_active_labels / get_pending_flags
    pager,        \* one client following queryLabels continuation cursors
    batches,      \* table `review_batches`: id -> status, or "none"
    batch_flags,  \* table `batch_flags`: the rows [batch_id, uri, reviewed, decision]
    creator,      \* one task running create_batch
    review,       \* one record per submit_review request task
    draft         \* a Label value as Label::new, with_cid, negated and sign build it

batchVars == <<batches, batch_flags, creator, review>>

vars == <<labels, seq_counter, burned, context, emit, sent, sub, reader, pager, batchVars,
          draft>>

(***************************************************************************)
(* Bounds of the model.                                                    *)
(***************************************************************************)
\* how many sequence values the BIGSERIAL may hand out
MaxSeq == 3
\* largest starting cursor a subscriber presents
MaxCursor == 1
\* messages the broadcast channel retains (1024 in main.rs, scaled down)
ChannelCapacity == 1
\* LIMIT of the backfill read (1000 in handle_subscribe, scaled down)
BackfillLimit == 2
\* largest page of queryLabels (250 in xrpc.rs, scaled down)
MaxLimit == 2
\* page of queryLabels when the request names none (50 in xrpc.rs, scaled down)
DefaultLimit == 2
\* longest list of decisions a submit_review request carries
MaxDecisions == 2

\* one task serving emit_label requests, one serving resolve_flag requests
Emitters == {"emit", "resolve"}
Subscribers == {"s1", "s2"}
\* the specifications with a single session run this one
OneSubscriber == {"s1"}
Uris == {"A", "B"}
CV == "copyright-violation"

(***************************************************************************)
(* Pure helpers over the labels table.                                     *)
(***************************************************************************)
Seqs(log) == {r.seq : r \in log}

Max(S) == CHOOSE x \in S : \A y \in S : y <= x

\* SELECT MAX(seq) FROM labels, None mapped to 0
get_latest_seq(log) == IF log = {} THEN 0 ELSE Max(Seqs(log))

\* the rows of a set, ascending by seq
RECURSIVE SortAsc(_)
SortAsc(rows) ==
    IF rows = {} THEN <<>>
    ELSE LET lo == CHOOSE r \in rows : \A q \in rows : r.seq <= q.seq
         IN  <<lo>> \o SortAsc(rows \ {lo})

Take(s, n) == IF Len(s) <= n THEN s ELSE SubSeq(s, 1, n)

\* SELECT ... WHERE seq > $1 ORDER BY seq ASC LIMIT $2
get_labels_since(log, cursor, limit) ==
    Take(SortAsc({r \in log : r.seq > cursor}), limit)

\* nextval of the sequence behind `seq BIGSERIAL`
Nextval_from_max(counter, log) == get_latest_seq(log) + 1
Nextval(counter, log) == counter + 1

\* the INSERT's effect on the table once it commits
InsertRow_lost(log, row) == log
InsertRow_replace(log, row) == {r \in log : r.uri # row.uri \/ r.val # row.val} \cup {row}
InsertRow(log, row) == log \cup {row}

(***************************************************************************)
(* label_context rows.                                                     *)
(***************************************************************************)
NoContext == [present |-> FALSE, title |-> "null", reason |-> "null"]

\* Option<Bytes> None
NoSig == [key |-> "null", msg |-> <<>>, len |-> 0]

\* no Label value built yet; an absent Option field is "null", a present one
\* is the text of its value
NoLabel == [some |-> FALSE, ver |-> "null", src |-> "null", uri |-> "null",
            cid |-> "null", val |-> "null", neg |-> "null", cts |-> "null",
            exp |-> "null", sig |-> NoSig]

Coalesce(new, old) == IF new # "null" THEN new ELSE old

\* INSERT ... ON CONFLICT (uri) DO UPDATE SET col = COALESCE(EXCLUDED.col, col)
store_context(ctx, uri, title, reason) ==
    [ctx EXCEPT ![uri] =
        IF ctx[uri].present
        THEN [present |-> TRUE,
              title   |-> Coalesce(title, ctx[uri].title),
              reason  |-> Coalesce(reason, ctx[uri].reason)]
        ELSE [present |-> TRUE, title |-> title, reason |-> reason]]

(***************************************************************************)
(* The broadcast channel: `sent` holds what was sent while a receiver      *)
(* existed; a receiver reads position `next`; only the last                *)
(* ChannelCapacity positions are retained.                                 *)
(***************************************************************************)
Receivers == {s \in Subscribers : sub[s].pc = "live"}

\* tx.send(msg): Err (value dropped) when no receiver exists, never blocks
Send(ch, msg) == IF Receivers = {} THEN ch ELSE Append(ch, msg)

Oldest(ch) == IF Len(ch) > ChannelCapacity THEN Len(ch) - ChannelCapacity + 1 ELSE 1

(***************************************************************************)
(* Emission requests: emit_label and resolve_flag.                         *)
(*   pc: idle -> store -> insert -> [ctx ->] bcast -> ok,  or -> err       *)
(***************************************************************************)
IdleEmit == [pc |-> "idle", kind |-> "emit", uri |-> "A", val |-> CV,
             neg |-> FALSE, ctx |-> FALSE, alloc |-> 0, seq |-> 0]

\* the handler has returned: its locals are gone, the response is left
Response(pc, seq) == [IdleEmit EXCEPT !.pc = pc, !.seq = seq]

Begin(e, kind, uri, val, neg, ctx, pc) ==
    /\ emit[e].pc \in {"idle", "ok", "err"}
    /\ emit' = [emit EXCEPT ![e] =
                  IF pc = "err" THEN Response("err", 0)
                  ELSE [pc |-> pc, kind |-> kind, uri |-> uri, val |-> val,
                        neg |-> neg, ctx |-> ctx, alloc |-> 0, seq |-> 0]]
    /\ UNCHANGED <<draft, labels, seq_counter, burned, context, sent, sub, reader, pager, batchVars>>

\* emit_label: Label::new, with_cid, negated, sign_label succeed
EmitLabel(e, uri, val, neg, ctx) == Begin(e, "emit", uri, val, neg, ctx, "store")

\* emit_label: sign_label fails, the `?` returns the error
EmitLabelSignError(e, uri, val, neg, ctx) == Begin(e, "emit", uri, val, neg, ctx, "err")

\* resolve_flag / resolve_flag_htmx: a negated label, no context
ResolveFlag(e, uri, val) == Begin(e, "resolve", uri, val, TRUE, FALSE, "store")

ResolveFlagSignError(e, uri, val) == Begin(e, "resolve", uri, val, TRUE, FALSE, "err")

\* store_label: the INSERT draws the default of `seq` from the sequence
StoreLabelNextval(e) ==
    /\ emit[e].pc = "store"
    /\ seq_counter < MaxSeq
    /\ LET n == Nextval(seq_counter, labels)
       IN  /\ seq_counter' = n
           /\ emit' = [emit EXCEPT ![e].pc = "insert", ![e].alloc = n]
    /\ UNCHANGED <<draft, labels, burned, context, sent, sub, reader, pager, batchVars>>

\* store_label: the INSERT commits and RETURNING seq reaches the handler
StoreLabelCommit(e) ==
    /\ emit[e].pc = "insert"
    /\ labels' = InsertRow(labels, [seq |-> emit[e].alloc, uri |-> emit[e].uri,
                                    val |-> emit[e].val, neg |-> emit[e].neg])
    /\ emit' = [emit EXCEPT ![e].pc = IF emit[e].ctx THEN "ctx" ELSE "bcast",
                            ![e].seq = emit[e].alloc]
    /\ UNCHANGED <<draft, seq_counter, burned, context, sent, sub, reader, pager, batchVars>>

\* store_label fails before the statement ran (no connection): `?` returns
StoreLabelError(e) ==
    /\ emit[e].pc = "store"
    /\ emit' = [emit EXCEPT ![e] = Response("err", 0)]
    /\ UNCHANGED <<draft, labels, seq_counter, burned, context, sent, sub, reader, pager, batchVars>>

\* store_label fails after the sequence value was drawn: the INSERT is rolled
\* back, the sequence is not
StoreLabelRollback_committed(e) ==
    /\ emit[e].pc = "insert"
    /\ labels' = labels \cup {[seq |-> emit[e].alloc, uri |-> emit[e].uri,
                               val |-> emit[e].val, neg |-> emit[e].neg]}
    /\ emit' = [emit EXCEPT ![e] = Response("err", 0)]
    /\ UNCHANGED <<draft, seq_counter, burned, context, sent, sub, reader, pager, batchVars>>
StoreLabelRollback(e) ==
    /\ emit[e].pc = "insert"
    /\ burned' = burned \cup {emit[e].alloc}
    /\ emit' = [emit EXCEPT ![e] = Response("err", 0)]
    /\ UNCHANGED <<draft, labels, seq_counter, context, sent, sub, reader, pager, batchVars>>

\* emit_label: db.store_context(uri, ctx) succeeds
StoreContext(e) ==
    /\ emit[e].pc = "ctx"
    /\ context' = store_context(context, emit[e].uri, "t1", "null")
    /\ emit' = [emit EXCEPT ![e].pc = "bcast"]
    /\ UNCHANGED <<draft, labels, seq_counter, burned, sent, sub, reader, pager, batchVars>>

\* emit_label: db.store_context fails; logged, the request goes on
StoreContextError_failing(e) ==
    /\ emit[e].pc = "ctx"
    /\ emit' = [emit EXCEPT ![e] = Response("err", 0)]
    /\ UNCHANGED <<draft, labels, seq_counter, burned, context, sent, sub, reader, pager, batchVars>>
StoreContextError(e) ==
    /\ emit[e].pc = "ctx"
    /\ emit' = [emit EXCEPT ![e].pc = "bcast"]
    /\ UNCHANGED <<draft, labels, seq_counter, burned, context, sent, sub, reader, pager, batchVars>>

\* `let _ = tx.send((seq, label))`, then Ok(Json(...{seq, label}))
Broadcast_propagating(e) ==
    /\ emit[e].pc = "bcast"
    /\ sent' = Send(sent, [seq |-> emit[e].seq, uri |-> emit[e].uri,
                           val |-> emit[e].val, neg |-> emit[e].neg])
    /\ emit' = [emit EXCEPT ![e] = IF Receivers = {} THEN Response("err", 0)
                                   ELSE Response("ok", emit[e].seq)]
    /\ UNCHANGED <<draft, labels, seq_counter, burned, context, sub, reader, pager, batchVars>>
Broadcast(e) ==
    /\ emit[e].pc = "bcast"
    /\ sent' = Send(sent, [seq |-> emit[e].seq, uri |-> emit[e].uri,
                           val |-> emit[e].val, neg |-> emit[e].neg])
    /\ emit' = [emit EXCEPT ![e] = Response("ok", emit[e].seq)]
    /\ UNCHANGED <<draft, labels, seq_counter, burned, context, sub, reader, pager, batchVars>>

(***************************************************************************)
(* subscribeLabels sessions: handle_subscribe.                             *)
(*   pc: init -> read -> sending -> live -> closed                         *)
(***************************************************************************)
InitSub == [pc |-> "init", has_cursor |-> FALSE, cursor |-> 0, rows |-> <<>>,
            start_seq |-> 0, last_seq |-> 0, next |-> 1, delivered |-> <<>>,
            lagged |-> FALSE]

\* the session task has ended: its locals are gone
ClosedSub == [InitSub EXCEPT !.pc = "closed"]

\* the live filter of handle_subscribe: `if seq > last_seq`
Deliverable_any(seq, last_seq) == TRUE
Deliverable(seq, last_seq) == seq > last_seq

\* the websocket is upgraded with ?cursor=c
Connect(s, c) ==
    /\ sub[s].pc = "init"
    /\ sub' = [sub EXCEPT ![s].pc = "read", ![s].has_cursor = TRUE, ![s].cursor = c]
    /\ UNCHANGED <<draft, labels, seq_counter, burned, context, emit, sent, reader, pager, batchVars>>

\* the websocket is upgraded without a cursor
ConnectNow(s) ==
    /\ sub[s].pc = "init"
    /\ sub' = [sub EXCEPT ![s].pc = "read"]
    /\ UNCHANGED <<draft, labels, seq_counter, burned, context, emit, sent, reader, pager, batchVars>>

\* db.get_labels_since(c, 1000) answers; start_seq = rows.last().seq or c
BackfillRead(s) ==
    /\ sub[s].pc = "read" /\ sub[s].has_cursor
    /\ LET rows == get_labels_since(labels, sub[s].cursor, BackfillLimit)
       IN  sub' = [sub EXCEPT ![s].pc = "sending", ![s].rows = rows,
                     ![s].start_seq = IF rows = <<>> THEN sub[s].cursor
                                      ELSE rows[Len(rows)].seq]
    /\ UNCHANGED <<draft, labels, seq_counter, burned, context, emit, sent, reader, pager, batchVars>>

\* db.get_labels_since fails: logged, the session returns
BackfillError(s) ==
    /\ sub[s].pc = "read" /\ sub[s].has_cursor
    /\ sub' = [sub EXCEPT ![s] = ClosedSub]
    /\ UNCHANGED <<draft, labels, seq_counter, burned, context, emit, sent, reader, pager, batchVars>>

\* db.get_latest_seq().await.unwrap_or(0), the query answering
LatestRead(s) ==
    /\ sub[s].pc = "read" /\ ~sub[s].has_cursor
    /\ sub' = [sub EXCEPT ![s].pc = "sending", ![s].start_seq = get_latest_seq(labels)]
    /\ UNCHANGED <<draft, labels, seq_counter, burned, context, emit, sent, reader, pager, batchVars>>

\* db.get_latest_seq().await.unwrap_or(0), the query failing
LatestReadError(s) ==
    /\ sub[s].pc = "read" /\ ~sub[s].has_cursor
    /\ sub' = [sub EXCEPT ![s].pc = "sending", ![s].start_seq = 0]
    /\ UNCHANGED <<draft, labels, seq_counter, burned, context, emit, sent, reader, pager, batchVars>>

\* one iteration of the backfill loop: socket.send of the next row
BackfillSend(s) ==
    /\ sub[s].pc = "sending" /\ sub[s].rows # <<>>
    /\ sub' = [sub EXCEPT ![s].rows = Tail(sub[s].rows),
                 ![s].delivered = Append(sub[s].delivered,
                                         [seq |-> Head(sub[s].rows).seq, via |-> "backfill"])]
    /\ UNCHANGED <<draft, labels, seq_counter, burned, context, emit, sent, reader, pager, batchVars>>

\* label_tx.subscribe(): the receiver starts at the channel's tail; then
\* `let mut last_seq = start_seq`
Subscribe(s) ==
    /\ sub[s].pc = "sending" /\ sub[s].rows = <<>>
    /\ sub' = [sub EXCEPT ![s].pc = "live", ![s].next = Len(sent) + 1,
                              ![s].last_seq = sub[s].start_seq]
    /\ UNCHANGED <<draft, labels, seq_counter, burned, context, emit, sent, reader, pager, batchVars>>

\* stream.next() yields Ok((seq, label))
RecvLive(s) ==
    /\ sub[s].pc = "live"
    /\ sub[s].next <= Len(sent) /\ sub[s].next >= Oldest(sent)
    /\ LET m == sent[sub[s].next]
       IN  IF Deliverable(m.seq, sub[s].last_seq)
           THEN sub' = [sub EXCEPT ![s].next = sub[s].next + 1,
                          ![s].last_seq = m.seq,
                          ![s].delivered = Append(sub[s].delivered,
                                                  [seq |-> m.seq, via |-> "live"])]
           ELSE sub' = [sub EXCEPT ![s].next = sub[s].next + 1]
    /\ UNCHANGED <<draft, labels, seq_counter, burned, context, emit, sent, reader, pager, batchVars>>

\* a live loop that ends the session on Err(Lagged)
RecvLagged_closing(s) ==
    /\ sub[s].pc = "live"
    /\ sub[s].next < Oldest(sent)
    /\ sub' = [sub EXCEPT ![s] = ClosedSub]
    /\ UNCHANGED <<draft, labels, seq_counter, burned, context, emit, sent, reader, pager, batchVars>>

\* stream.next() yields Err(Lagged): `continue`, the receiver jumps to the
\* oldest retained message
RecvLagged(s) ==
    /\ sub[s].pc = "live"
    /\ sub[s].next < Oldest(sent)
    /\ sub' = [sub EXCEPT ![s].next = Oldest(sent), ![s].lagged = TRUE]
    /\ UNCHANGED <<draft, labels, seq_counter, burned, context, emit, sent, reader, pager, batchVars>>

\* a socket.send fails, or the client closes: the session ends
Disconnect(s) ==
    /\ \/ sub[s].pc = "sending" /\ sub[s].rows # <<>>
       \/ sub[s].pc = "live"
    /\ sub' = [sub EXCEPT ![s] = ClosedSub]
    /\ UNCHANGED <<draft, labels, seq_counter, burned, context, emit, sent, reader, pager, batchVars>>

\* the client's last_seen: the seq of the last label delivered to it, or the
\* cursor it started from
LastSeen(s) ==
    IF sub[s].delivered = <<>> THEN sub[s].cursor
    ELSE sub[s].delivered[Len(sub[s].delivered)].seq

\* the client of a live session that started at cursor 0 drops the connection
\* and opens a new one with ?cursor=last_seen: the old session's task ends
\* (its receiver is dropped), the new one starts; `delivered` goes on as the
\* client's record of what it received over both
Reconnect(s) ==
    /\ sub[s].pc = "live" /\ sub[s].has_cursor /\ sub[s].cursor = 0
    /\ sub[s].delivered # <<>>
    /\ sub' = [sub EXCEPT ![s] = [InitSub EXCEPT !.pc = "read", !.has_cursor = TRUE,
                                                 !.cursor = LastSeen(s),
                                                 !.delivered = sub[s].delivered]]
    /\ UNCHANGED <<draft, labels, seq_counter, burned, context, emit, sent, reader, pager, batchVars>>

(***************************************************************************)
(* Derived status: get_active_labels and get_pending_flags.                *)
(***************************************************************************)
\* SELECT DISTINCT uri ... WHERE val = 'copyright-violation' AND neg = true
\*   AND uri = ANY($1)
negated_in_after(log, uris) ==
    {r.uri : r \in {q \in log : /\ q.val = CV /\ q.neg /\ q.uri \in uris
                                /\ \E a \in log : /\ a.uri = q.uri /\ a.val = CV
                                                  /\ ~a.neg /\ a.seq < q.seq}}
negated_in_latest(log, uris) ==
    {r.uri : r \in {q \in log : /\ q.val = CV /\ q.neg /\ q.uri \in uris
                                /\ \A a \in log : (a.uri = q.uri /\ a.val = CV)
                                                  => a.seq <= q.seq}}
negated_in(log, uris) ==
    {r.uri : r \in {q \in log : q.val = CV /\ q.neg /\ q.uri \in uris}}

\* SELECT DISTINCT uri ... WHERE val = 'copyright-violation' AND neg = false
\*   AND uri = ANY($1)
asserted_in_anyval(log, uris) ==
    {r.uri : r \in {q \in log : ~q.neg /\ q.uri \in uris}}
asserted_in(log, uris) ==
    {r.uri : r \in {q \in log : q.val = CV /\ ~q.neg /\ q.uri \in uris}}

\* .filter(|uri| !negated_uris.contains(uri))
filter_active(asserted, negated) == {u \in asserted : u \notin negated}

\* get_active_labels with both reads against one state of the table
get_active_labels(log, uris) ==
    IF uris = {} THEN {}
    ELSE filter_active(asserted_in(log, uris), negated_in(log, uris))

\* the rows of a set, descending by seq
RECURSIVE SortDesc(_)
SortDesc(rows) ==
    IF rows = {} THEN <<>>
    ELSE LET hi == CHOOSE r \in rows : \A q \in rows : r.seq >= q.seq
         IN  <<hi>> \o SortDesc(rows \ {hi})

\* SELECT l.seq, l.uri, ..., c.* FROM labels l LEFT JOIN label_context c
\*   ON l.uri = c.uri WHERE l.val = 'copyright-violation' AND l.neg = false
\*   ORDER BY l.seq DESC
pending_rows_asc(log, ctx) ==
    LET rows == SortAsc({r \in log : r.val = CV /\ ~r.neg})
    IN  [i \in 1..Len(rows) |->
            [seq |-> rows[i].seq, uri |-> rows[i].uri, context |-> ctx[rows[i].uri]]]
pending_rows(log, ctx) ==
    LET rows == SortDesc({r \in log : r.val = CV /\ ~r.neg})
    IN  [i \in 1..Len(rows) |->
            [seq |-> rows[i].seq, uri |-> rows[i].uri, context |-> ctx[rows[i].uri]]]

\* SELECT DISTINCT uri ... WHERE val = 'copyright-violation' AND neg = true
negated_all(log) == {r.uri : r \in {q \in log : q.val = CV /\ q.neg}}

\* rows.into_iter().map(... FlaggedTrack { resolved: negated_uris.contains(&uri) })
flagged_tracks(rows, negated) ==
    [i \in 1..Len(rows) |->
        [seq |-> rows[i].seq, uri |-> rows[i].uri,
         resolved |-> rows[i].uri \in negated,
         context |-> IF rows[i].context.title # "null" \/ rows[i].context.reason # "null"
                     THEN rows[i].context ELSE NoContext]]

\* get_pending_flags with both reads against one state of the tables
get_pending_flags(log, ctx) == flagged_tracks(pending_rows(log, ctx), negated_all(log))

(***************************************************************************)
(* The task that runs the two queries: each call reads the table twice.    *)
(*   get_active_labels: idle -> neg -> pos -> done                         *)
(*   get_pending_flags: idle -> rows -> done                               *)
(***************************************************************************)
IdleReader == [pc |-> "idle", kind |-> "active", uris |-> {}, first |-> {},
               rows |-> <<>>, log0 |-> {}, result |-> {}, flags |-> <<>>]

\* get_active_labels(&[]): `return Ok(Vec::new())` without a query
ActiveEmpty ==
    /\ reader.pc \in {"idle", "done"}
    /\ reader' = [IdleReader EXCEPT !.pc = "done"]
    /\ UNCHANGED <<draft, labels, seq_counter, burned, context, emit, sent, sub, pager, batchVars>>

\* get_active_labels(uris): the first query (negated uris) answers
ActiveReadNegated(uris) ==
    /\ reader.pc \in {"idle", "done"}
    /\ uris # {}
    /\ reader' = [IdleReader EXCEPT !.pc = "pos", !.uris = uris, !.log0 = labels,
                                    !.first = negated_in(labels, uris)]
    /\ UNCHANGED <<draft, labels, seq_counter, burned, context, emit, sent, sub, pager, batchVars>>

\* get_active_labels(uris): the second query answers and is filtered
ActiveReadAsserted ==
    /\ reader.pc = "pos"
    /\ reader' = [reader EXCEPT !.pc = "done", !.first = {}, !.log0 = {},
                     !.result = filter_active(asserted_in(labels, reader.uris), reader.first)]
    /\ UNCHANGED <<draft, labels, seq_counter, burned, context, emit, sent, sub, pager, batchVars>>

\* get_pending_flags: the first query (asserting rows joined with context) answers
PendingReadRows ==
    /\ reader.pc \in {"idle", "done"}
    /\ reader' = [IdleReader EXCEPT !.pc = "rows", !.kind = "pending", !.log0 = labels,
                                    !.rows = pending_rows(labels, context)]
    /\ UNCHANGED <<draft, labels, seq_counter, burned, context, emit, sent, sub, pager, batchVars>>

\* get_pending_flags: the second query (negated uris) answers, the tracks are built
PendingReadNegated ==
    /\ reader.pc = "rows"
    /\ reader' = [reader EXCEPT !.pc = "done", !.rows = <<>>, !.log0 = {},
                     !.flags = flagged_tracks(reader.rows, negated_all(labels))]
    /\ UNCHANGED <<draft, labels, seq_counter, burned, context, emit, sent, sub, pager, batchVars>>

(***************************************************************************)
(* Review batches: create_batch and submit_review.                         *)
(***************************************************************************)
\* the batch ids requests name; create_batch generates the first only
BatchIds == {"b1", "b2"}

GeneratedIds == {"b1"}

Reviewers == {"r1", "r2"}
\* the specifications with a single request task run this one
OneReviewer == {"r1"}

\* the decision strings a request may carry; the last is none the match knows
Decisions == {"clear", "defer", "confirm", "bogus"}

\* the target lists create_batch requests carry: none (the snapshot is taken),
\* one target, two targets, one target twice
TargetLists == {<<>>, <<"A">>, <<"A", "B">>, <<"A", "A">>}

\* UPDATE batch_flags SET reviewed = true, decision = $1
\*   WHERE batch_id = $2 AND uri = $3
mark_flag_reviewed_nodecision(flags, id, uri, decision) ==
    {IF f.batch_id = id /\ f.uri = uri THEN [f EXCEPT !.reviewed = TRUE] ELSE f
        : f \in flags}
\* an UPDATE with `AND reviewed = false`: the first decision stays
mark_flag_reviewed_once(flags, id, uri, decision) ==
    {IF f.batch_id = id /\ f.uri = uri /\ ~f.reviewed
     THEN [f EXCEPT !.reviewed = TRUE, !.decision = decision]
     ELSE f : f \in flags}
mark_flag_reviewed(flags, id, uri, decision) ==
    {IF f.batch_id = id /\ f.uri = uri
     THEN [f EXCEPT !.reviewed = TRUE, !.decision = decision]
     ELSE f : f \in flags}

\* a SELECT without `AND reviewed = false`
get_batch_pending_uris_unfiltered(flags, id) ==
    {f.uri : f \in {g \in flags : g.batch_id = id}}
\* SELECT uri FROM batch_flags WHERE batch_id = $1 AND reviewed = false
get_batch_pending_uris(flags, id) ==
    {f.uri : f \in {g \in flags : g.batch_id = id /\ ~g.reviewed}}

\* UPDATE review_batches SET status = $1 WHERE id = $2
update_batch_status(bs, id, status) ==
    IF bs[id] = "none" THEN bs ELSE [bs EXCEPT ![id] = status]

\* INSERT INTO review_batches (id, created_by): status defaults to 'pending'
insert_batch_upsert(bs, id) == [bs EXCEPT ![id] = "pending"]
insert_batch(bs, id) == IF bs[id] = "none" THEN [bs EXCEPT ![id] = "pending"] ELSE bs

\* INSERT INTO batch_flags (batch_id, uri) ... ON CONFLICT (batch_id, uri) DO NOTHING
\* a batch_flags table without the (batch_id, uri) key: every INSERT adds a row
insert_batch_flag_dup(flags, id, uri) ==
    flags \cup {[batch_id |-> id, uri |-> uri, reviewed |-> FALSE, decision |-> "null"]}
\* an INSERT with ON CONFLICT (batch_id, uri) DO UPDATE that resets the row
insert_batch_flag_reset(flags, id, uri) ==
    {f \in flags : ~(f.batch_id = id /\ f.uri = uri)}
        \cup {[batch_id |-> id, uri |-> uri, reviewed |-> FALSE, decision |-> "null"]}
insert_batch_flag(flags, id, uri) ==
    IF \E f \in flags : f.batch_id = id /\ f.uri = uri THEN flags
    ELSE flags \cup {[batch_id |-> id, uri |-> uri, reviewed |-> FALSE,
                      decision |-> "null"]}

\* format!("{:?}", reason).to_lowercase()
reason_str(reason) ==
    CASE reason = "OriginalArtist"   -> "originalartist"
      [] reason = "Licensed"         -> "licensed"
      [] reason = "FingerprintNoise" -> "fingerprintnoise"
      [] reason = "CoverVersion"     -> "coverversion"
      [] reason = "ContentDeleted"   -> "contentdeleted"
      [] reason = "Other"            -> "other"

\* INSERT INTO label_context (uri, resolution_reason, resolution_notes)
\*   ON CONFLICT (uri) DO UPDATE SET resolution_reason = EXCLUDED.resolution_reason
store_resolution(ctx, uri, reason) ==
    [ctx EXCEPT ![uri] =
        IF ctx[uri].present
        THEN [ctx[uri] EXCEPT !.reason = reason_str(reason)]
        ELSE [present |-> TRUE, title |-> "null", reason |-> reason_str(reason)]]

(***************************************************************************)
(* create_batch: the request handler and LabelDb::create_batch.            *)
(*   pc: idle -> row -> members -> ok,  or -> err                          *)
(***************************************************************************)
IdleCreator == [pc |-> "idle", id |-> "b1", uris |-> <<>>]

\* the targets of a request that names none: the targets of the unresolved
\* entries of pending_flags at call time
snapshot_targets(log, ctx) ==
    LET unresolved == SelectSeq(get_pending_flags(log, ctx), LAMBDA e : ~e.resolved)
    IN  [i \in 1..Len(unresolved) |-> unresolved[i].uri]

\* create_batch(targets?, creator?): the member list, the check that it is not
\* empty, the generated id
CreateBatch_allow_empty(targets, id) ==
    /\ creator.pc \in {"idle", "ok", "err"}
    /\ LET uris == IF targets = <<>> THEN snapshot_targets(labels, context) ELSE targets
       IN  creator' = [pc |-> "row", id |-> id, uris |-> uris]
    /\ UNCHANGED <<draft, labels, seq_counter, burned, context, emit, sent, sub, reader,
                   pager, batches, batch_flags, review>>
CreateBatch(targets, id) ==
    /\ creator.pc \in {"idle", "ok", "err"}
    /\ LET uris == IF targets = <<>> THEN snapshot_targets(labels, context) ELSE targets
       IN  creator' = IF uris = <<>> THEN [IdleCreator EXCEPT !.pc = "err"]
                      ELSE [pc |-> "row", id |-> id, uris |-> uris]
    /\ UNCHANGED <<draft, labels, seq_counter, burned, context, emit, sent, sub, reader,
                   pager, batches, batch_flags, review>>

\* LabelDb::create_batch: the INSERT of the batch row answers; a duplicate id
\* violates the primary key and the `?` returns
CreateBatchInsertRow ==
    /\ creator.pc = "row"
    /\ batches' = insert_batch(batches, creator.id)
    /\ creator' = IF batches[creator.id] = "none"
                  THEN [creator EXCEPT !.pc = IF creator.uris = <<>> THEN "ok"
                                              ELSE "members"]
                  ELSE [IdleCreator EXCEPT !.pc = "err"]
    /\ UNCHANGED <<draft, labels, seq_counter, burned, context, emit, sent, sub, reader,
                   pager, batch_flags, review>>

\* LabelDb::create_batch: one iteration of `for uri in uris`
CreateBatchInsertMember ==
    /\ creator.pc = "members"
    /\ batch_flags' = insert_batch_flag(batch_flags, creator.id, Head(creator.uris))
    /\ creator' = IF Tail(creator.uris) = <<>> THEN [IdleCreator EXCEPT !.pc = "ok"]
                  ELSE [creator EXCEPT !.uris = Tail(creator.uris)]
    /\ UNCHANGED <<draft, labels, seq_counter, burned, context, emit, sent, sub, reader,
                   pager, batches, review>>

\* LabelDb::create_batch: a statement fails, the `?` returns; what was inserted stays
CreateBatchError ==
    /\ creator.pc \in {"row", "members"}
    /\ creator' = [IdleCreator EXCEPT !.pc = "err"]
    /\ UNCHANGED <<draft, labels, seq_counter, burned, context, emit, sent, sub, reader,
                   pager, batches, batch_flags, review>>

(***************************************************************************)
(* submit_review.                                                          *)
(*   pc: idle -> get -> loop -> [store -> insert -> resolution -> bcast]   *)
(*       -> loop ... -> [update ->] ok,  or -> notfound / err              *)
(* The decisions of a request are drawn one by one as the loop             *)
(* `for decision in &request.decisions` reaches them: `n` counts those     *)
(* passed, `uri` and `decision` hold the one being processed.              *)
(***************************************************************************)
IdleReview == [pc |-> "idle", batch |-> "b1", n |-> 0, uri |-> "A",
               decision |-> "null", resolved_count |-> 0, alloc |-> 0, seq |-> 0]

\* the handler has returned: its locals are gone, the kind of response is left
ReviewReturned(pc) == [IdleReview EXCEPT !.pc = pc]

\* the end of one iteration: back at the top of the loop
ReviewAdvance(rec, count) ==
    [rec EXCEPT !.pc = "loop", !.resolved_count = count, !.uri = IdleReview.uri,
                !.decision = IdleReview.decision, !.alloc = 0, !.seq = 0]

\* POST submit_review for batch id
SubmitReview(r, id) ==
    /\ review[r].pc \in {"idle", "ok", "err", "notfound"}
    /\ review' = [review EXCEPT ![r] = [IdleReview EXCEPT !.pc = "get", !.batch = id]]
    /\ UNCHANGED <<draft, labels, seq_counter, burned, context, emit, sent, sub, reader,
                   pager, batches, batch_flags, creator>>

\* db.get_batch(&batch_id) answers: None is NotFound("batch not found")
ReviewGetBatch_lenient(r) ==
    /\ review[r].pc = "get"
    /\ review' = [review EXCEPT ![r].pc = "loop"]
    /\ UNCHANGED <<draft, labels, seq_counter, burned, context, emit, sent, sub, reader,
                   pager, batches, batch_flags, creator>>
ReviewGetBatch(r) ==
    /\ review[r].pc = "get"
    /\ review' = [review EXCEPT ![r] =
                    IF batches[review[r].batch] = "none" THEN ReviewReturned("notfound")
                    ELSE [review[r] EXCEPT !.pc = "loop"]]
    /\ UNCHANGED <<draft, labels, seq_counter, burned, context, emit, sent, sub, reader,
                   pager, batches, batch_flags, creator>>

\* a query of the request fails before it changed anything: get_batch,
\* mark_flag_reviewed, store_label before its INSERT ran, get_batch_pending_uris,
\* update_batch_status
ReviewDbError(r) ==
    /\ review[r].pc \in {"get", "loop", "store", "update"}
    /\ review' = [review EXCEPT ![r] = ReviewReturned("err")]
    /\ UNCHANGED <<draft, labels, seq_counter, burned, context, emit, sent, sub, reader,
                   pager, batches, batch_flags, creator>>

\* the next decision of the request is (uri, decision): db.mark_flag_reviewed
\* answers, then the match: "clear" builds and signs the negating label,
\* "defer", "confirm" and anything else only log
ReviewMark_abort_unknown(r, uri, decision) ==
    /\ review[r].pc = "loop"
    /\ review[r].n < MaxDecisions
    /\ batch_flags' = mark_flag_reviewed(batch_flags, review[r].batch, uri, decision)
    /\ LET rec == [review[r] EXCEPT !.n = review[r].n + 1, !.uri = uri,
                                    !.decision = decision]
       IN  review' = [review EXCEPT ![r] =
                        IF decision = "clear" THEN [rec EXCEPT !.pc = "store"]
                        ELSE IF decision \in {"defer", "confirm"}
                        THEN ReviewAdvance(rec, rec.resolved_count)
                        ELSE ReviewReturned("err")]
    /\ UNCHANGED <<draft, labels, seq_counter, burned, context, emit, sent, sub, reader,
                   pager, batches, creator>>
\* a loop that passes over a decision whose UPDATE matched no row
ReviewMark_members_only(r, uri, decision) ==
    /\ review[r].pc = "loop"
    /\ review[r].n < MaxDecisions
    /\ batch_flags' = mark_flag_reviewed(batch_flags, review[r].batch, uri, decision)
    /\ LET rec == [review[r] EXCEPT !.n = review[r].n + 1, !.uri = uri,
                                    !.decision = decision]
           member == \E f \in batch_flags : f.batch_id = review[r].batch /\ f.uri = uri
       IN  review' = [review EXCEPT ![r] =
                        IF decision = "clear" /\ member THEN [rec EXCEPT !.pc = "store"]
                        ELSE ReviewAdvance(rec, rec.resolved_count)]
    /\ UNCHANGED <<draft, labels, seq_counter, burned, context, emit, sent, sub, reader,
                   pager, batches, creator>>
ReviewMark(r, uri, decision) ==
    /\ review[r].pc = "loop"
    /\ review[r].n < MaxDecisions
    /\ batch_flags' = mark_flag_reviewed(batch_flags, review[r].batch, uri, decision)
    /\ LET rec == [review[r] EXCEPT !.n = review[r].n + 1, !.uri = uri,
                                    !.decision = decision]
       IN  review' = [review EXCEPT ![r] =
                        IF decision = "clear" THEN [rec EXCEPT !.pc = "store"]
                        ELSE ReviewAdvance(rec, rec.resolved_count)]
    /\ UNCHANGED <<draft, labels, seq_counter, burned, context, emit, sent, sub, reader,
                   pager, batches, creator>>

\* the next decision is (uri, "clear"): db.mark_flag_reviewed answers, then
\* signer.sign_label(label)? fails
ReviewMarkSignError(r, uri) ==
    /\ review[r].pc = "loop"
    /\ review[r].n < MaxDecisions
    /\ batch_flags' = mark_flag_reviewed(batch_flags, review[r].batch, uri, "clear")
    /\ review' = [review EXCEPT ![r] = ReviewReturned("err")]
    /\ UNCHANGED <<draft, labels, seq_counter, burned, context, emit, sent, sub, reader,
                   pager, batches, creator>>

\* db.store_label: the INSERT draws the default of `seq` from the sequence
ReviewStoreNextval(r) ==
    /\ review[r].pc = "store"
    /\ seq_counter < MaxSeq
    /\ LET n == Nextval(seq_counter, labels)
       IN  /\ seq_counter' = n
           /\ review' = [review EXCEPT ![r].pc = "insert", ![r].alloc = n]
    /\ UNCHANGED <<draft, labels, burned, context, emit, sent, sub, reader, pager,
                   batches, batch_flags, creator>>

\* db.store_label: the INSERT commits and RETURNING seq reaches the handler
ReviewStoreCommit(r) ==
    /\ review[r].pc = "insert"
    /\ labels' = InsertRow(labels, [seq |-> review[r].alloc, uri |-> review[r].uri,
                                    val |-> CV, neg |-> TRUE])
    /\ review' = [review EXCEPT ![r].pc = "resolution", ![r].seq = review[r].alloc]
    /\ UNCHANGED <<draft, seq_counter, burned, context, emit, sent, sub, reader, pager,
                   batches, batch_flags, creator>>

\* a request run as one transaction: the failure undoes its member updates
ReviewStoreRollback_undo(r) ==
    /\ review[r].pc = "insert"
    /\ burned' = burned \cup {review[r].alloc}
    /\ batch_flags' = {IF f.batch_id = review[r].batch
                       THEN [f EXCEPT !.reviewed = FALSE, !.decision = "null"] ELSE f
                         : f \in batch_flags}
    /\ review' = [review EXCEPT ![r] = ReviewReturned("err")]
    /\ UNCHANGED <<draft, labels, seq_counter, context, emit, sent, sub, reader, pager,
                   batches, creator>>

\* db.store_label fails after the sequence value was drawn
ReviewStoreRollback(r) ==
    /\ review[r].pc = "insert"
    /\ burned' = burned \cup {review[r].alloc}
    /\ review' = [review EXCEPT ![r] = ReviewReturned("err")]
    /\ UNCHANGED <<draft, labels, seq_counter, context, emit, sent, sub, reader, pager,
                   batches, batch_flags, creator>>

\* db.store_resolution(uri, FingerprintNoise, ..) answers
ReviewStoreResolution(r) ==
    /\ review[r].pc = "resolution"
    /\ context' = store_resolution(context, review[r].uri, "FingerprintNoise")
    /\ review' = [review EXCEPT ![r].pc = "bcast"]
    /\ UNCHANGED <<draft, labels, seq_counter, burned, emit, sent, sub, reader, pager,
                   batches, batch_flags, creator>>

\* db.store_resolution fails: the `?` returns before the broadcast
ReviewStoreResolutionError(r) ==
    /\ review[r].pc = "resolution"
    /\ review' = [review EXCEPT ![r] = ReviewReturned("err")]
    /\ UNCHANGED <<draft, labels, seq_counter, burned, context, emit, sent, sub, reader,
                   pager, batches, batch_flags, creator>>

\* `let _ = tx.send((seq, label))`, resolved_count += 1, the loop goes on
ReviewBroadcast_silent(r) ==
    /\ review[r].pc = "bcast"
    /\ review' = [review EXCEPT ![r] = ReviewAdvance(review[r], review[r].resolved_count + 1)]
    /\ UNCHANGED <<draft, labels, seq_counter, burned, context, emit, sent, sub, reader,
                   pager, batches, batch_flags, creator>>
ReviewBroadcast(r) ==
    /\ review[r].pc = "bcast"
    /\ sent' = Send(sent, [seq |-> review[r].seq, uri |-> review[r].uri,
                           val |-> CV, neg |-> TRUE])
    /\ review' = [review EXCEPT ![r] = ReviewAdvance(review[r], review[r].resolved_count + 1)]
    /\ UNCHANGED <<draft, labels, seq_counter, burned, context, emit, sub, reader, pager,
                   batches, batch_flags, creator>>

\* the request holds no further decision: db.get_batch_pending_uris answers;
\* `if pending.is_empty()`
ReviewPending(r) ==
    /\ review[r].pc = "loop"
    /\ review' = [review EXCEPT ![r] =
                    IF get_batch_pending_uris(batch_flags, review[r].batch) = {}
                    THEN [review[r] EXCEPT !.pc = "update"] ELSE ReviewReturned("ok")]
    /\ UNCHANGED <<draft, labels, seq_counter, burned, context, emit, sent, sub, reader,
                   pager, batches, batch_flags, creator>>

\* db.update_batch_status(&batch_id, "completed") answers, then Ok(Json(..))
ReviewUpdate(r) ==
    /\ review[r].pc = "update"
    /\ batches' = update_batch_status(batches, review[r].batch, "completed")
    /\ review' = [review EXCEPT ![r] = ReviewReturned("ok")]
    /\ UNCHANGED <<draft, labels, seq_counter, burned, context, emit, sent, sub, reader,
                   pager, batch_flags, creator>>

(***************************************************************************)
(* queryLabels: the handler of xrpc.rs over LabelDb::query_labels, and a   *)
(* client that follows the continuation cursors.                           *)
(***************************************************************************)
\* every stored label carries the signer's DID as src
LabelerDid == "did:plc:labeler"

Digits == <<"0", "1", "2", "3", "4", "5", "6", "7", "8", "9">>

\* i64::to_string of a non-negative seq, as its sequence of characters
RECURSIVE to_string(_)
to_string(n) ==
    IF n < 10 THEN <<Digits[n + 1]>>
    ELSE to_string(n \div 10) \o <<Digits[(n % 10) + 1]>>

DigitVal(c) == (CHOOSE i \in 1..10 : Digits[i] = c) - 1

RECURSIVE ParseDigits(_, _)
ParseDigits(str, acc) ==
    IF str = <<>> THEN acc ELSE ParseDigits(Tail(str), acc * 10 + DigitVal(Head(str)))

\* c.parse::<i64>().unwrap_or(0)
parse_cursor(str) ==
    IF str = <<>> \/ \E i \in 1..Len(str) : \A d \in 1..10 : Digits[d] # str[i]
    THEN 0
    ELSE ParseDigits(str, 0)

\* Option<String>
NoCursor == [some |-> FALSE, str |-> <<>>]

SomeCursor(str) == [some |-> TRUE, str |-> str]

\* `uri LIKE $n` with * turned into % for a pattern holding *, `uri = $n` otherwise
UriMatches(uri, patterns) ==
    \E pat \in patterns : IF pat = "*" THEN TRUE ELSE uri = pat

\* `src IN (...)` when sources are given and not empty
SrcMatches(sources) == sources = {} \/ LabelerDid \in sources

\* params.limit.unwrap_or(50).clamp(1, 250); an Option<i64> is <<>> or <<n>>
clamp_limit(limit) ==
    LET l == IF limit = <<>> THEN DefaultLimit ELSE limit[1]
    IN  IF l < 1 THEN 1 ELSE IF l > MaxLimit THEN MaxLimit ELSE l

\* the rows the WHERE clause of query_labels keeps
query_matching(log, patterns, sources, cursor) ==
    {r \in log : /\ UriMatches(r.uri, patterns)
                 /\ SrcMatches(sources)
                 /\ cursor.some => r.seq > parse_cursor(cursor.str)}

\* LabelDb::query_labels: LIMIT limit + 1, pop the extra row, cursor = last seq
query_labels_nopop(log, patterns, sources, cursor, limit) ==
    LET rows == Take(SortAsc(query_matching(log, patterns, sources, cursor)), limit + 1)
    IN  IF Len(rows) > limit
        THEN [rows |-> rows, cursor |-> SomeCursor(to_string(rows[Len(rows)].seq))]
        ELSE [rows |-> rows, cursor |-> NoCursor]
query_labels(log, patterns, sources, cursor, limit) ==
    LET rows == Take(SortAsc(query_matching(log, patterns, sources, cursor)), limit + 1)
    IN  IF Len(rows) > limit
        THEN LET kept == SubSeq(rows, 1, Len(rows) - 1)
             IN  [rows   |-> kept,
                  cursor |-> IF kept = <<>> THEN NoCursor
                             ELSE SomeCursor(to_string(kept[Len(kept)].seq))]
        ELSE [rows |-> rows, cursor |-> NoCursor]

IdlePager == [pc |-> "idle", patterns |-> {}, sources |-> {}, limit |-> 1,
              start |-> NoCursor, cursor |-> NoCursor, pages |-> <<>>, log0 |-> {}]

\* the page a response carries: the sequence numbers of its labels and its cursor
Page(res) == [seqs |-> [i \in 1..Len(res.rows) |-> res.rows[i].seq], cursor |-> res.cursor]

\* GET queryLabels?uriPatterns=..&sources=..&cursor=..&limit=..: the first
\* query of the client's walk
QueryFirst(patterns, sources, cursor, limit) ==
    /\ pager.pc = "idle"
    /\ LET l   == clamp_limit(limit)
           res == query_labels(labels, patterns, sources, cursor, l)
       IN  pager' = [pc |-> IF res.cursor.some THEN "more" ELSE "done",
                     patterns |-> patterns, sources |-> sources, limit |-> l,
                     start |-> cursor, cursor |-> res.cursor,
                     pages |-> <<Page(res)>>, log0 |-> labels]
    /\ UNCHANGED <<draft, labels, seq_counter, burned, context, emit, sent, sub, reader, batchVars>>

\* the client repeats the query with the cursor of the last response
QueryNext ==
    /\ pager.pc = "more"
    /\ LET res == query_labels(labels, pager.patterns, pager.sources, pager.cursor, pager.limit)
       IN  pager' = [pager EXCEPT !.pc = IF res.cursor.some THEN "more" ELSE "done",
                                  !.cursor = res.cursor,
                                  !.pages = Append(pager.pages, Page(res))]
    /\ UNCHANGED <<draft, labels, seq_counter, burned, context, emit, sent, sub, reader, batchVars>>

(***************************************************************************)
(* Specification of the emission and distribution paths.                   *)
(***************************************************************************)
Init ==
    /\ labels = {}
    /\ seq_counter = 0
    /\ burned = {}
    /\ context = [u \in Uris |-> NoContext]
    /\ emit = [e \in Emitters |-> IdleEmit]
    /\ sent = <<>>
    /\ sub = [s \in Subscribers |-> InitSub]
    /\ reader = IdleReader
    /\ pager = IdlePager
    /\ batches = [b \in BatchIds |-> "none"]
    /\ batch_flags = {}
    /\ creator = IdleCreator
    /\ review = [r \in Reviewers |-> IdleReview]
    /\ draft = NoLabel

Next ==
    \/ \E ctx \in BOOLEAN : EmitLabel("emit", "A", CV, FALSE, ctx)
    \/ EmitLabelSignError("emit", "A", CV, FALSE, FALSE)
    \/ ResolveFlag("resolve", "A", CV)
    \/ ResolveFlagSignError("resolve", "A", CV)
    \/ \E e \in Emitters : StoreLabelNextval(e)
    \/ \E e \in Emitters : StoreLabelCommit(e)
    \/ \E e \in Emitters : StoreLabelError(e)
    \/ \E e \in Emitters : StoreLabelRollback(e)
    \/ \E e \in Emitters : StoreContext(e)
    \/ \E e \in Emitters : StoreContextError(e)
    \/ \E e \in Emitters : Broadcast(e)
    \/ \E s \in OneSubscriber, c \in 0..MaxCursor : Connect(s, c)
    \/ \E s \in OneSubscriber : ConnectNow(s)
    \/ \E s \in OneSubscriber : BackfillRead(s)
    \/ \E s \in OneSubscriber : BackfillError(s)
    \/ \E s \in OneSubscriber : LatestRead(s)
    \/ \E s \in OneSubscriber : LatestReadError(s)
    \/ \E s \in OneSubscriber : BackfillSend(s)
    \/ \E s \in OneSubscriber : Subscribe(s)
    \/ \E s \in OneSubscriber : RecvLive(s)
    \/ \E s \in OneSubscriber : RecvLagged(s)
    \/ \E s \in OneSubscriber : Disconnect(s)

Spec == Init /\ [][Next]_vars

(***************************************************************************)
(* Specification of the derived-status queries over a growing log.         *)
(***************************************************************************)
\* the (uri, val, neg) of the emissions: both targets under the flag value,
\* one of them also under another value
DeriveInputs ==
    {<<u, CV, n>> : u \in Uris, n \in BOOLEAN} \cup {<<"A", "spam", n>> : n \in BOOLEAN}

NextDerive ==
    \/ \E i \in DeriveInputs : EmitLabel("emit", i[1], i[2], i[3], FALSE)
    \/ StoreLabelNextval("emit")
    \/ StoreLabelCommit("emit")
    \/ Broadcast("emit")
    \/ ActiveEmpty
    \/ \E uris \in SUBSET Uris : ActiveReadNegated(uris)
    \/ ActiveReadAsserted
    \/ PendingReadRows
    \/ PendingReadNegated

SpecDerive == Init /\ [][NextDerive]_vars

(***************************************************************************)
(* Specification of the label log alone: the appends that build it, for    *)
(* the properties of the derivation as a function of the log.              *)
(***************************************************************************)
NextLog ==
    \/ \E i \in DeriveInputs : EmitLabel("emit", i[1], i[2], i[3], FALSE)
    \/ StoreLabelNextval("emit")
    \/ StoreLabelCommit("emit")
    \/ Broadcast("emit")

SpecLog == Init /\ [][NextLog]_vars

(***************************************************************************)
(* Specification of queryLabels pagination over a growing log.             *)
(***************************************************************************)
QueryPatterns == {{"A"}, {"*"}, {"A", "B"}}

QuerySources == {{}, {LabelerDid}, {"did:plc:other"}}

QueryCursors == {NoCursor, SomeCursor(<<"x">>), SomeCursor(to_string(1))}

QueryLimits == {<<>>} \cup {<<n>> : n \in 0..(MaxLimit + 1)}

NextQuery ==
    \/ \E u \in Uris : EmitLabel("emit", u, CV, FALSE, FALSE)
    \/ StoreLabelNextval("emit")
    \/ StoreLabelCommit("emit")
    \/ Broadcast("emit")
    \/ \E pats \in QueryPatterns, srcs \in QuerySources,
          c \in QueryCursors, l \in QueryLimits : QueryFirst(pats, srcs, c, l)
    \/ QueryNext

SpecQuery == Init /\ [][NextQuery]_vars

(***************************************************************************)
(* Specification of the batch workflow: batches are created and reviewed.  *)
(***************************************************************************)
NextBatch ==
    \/ \E t \in TargetLists, id \in GeneratedIds : CreateBatch(t, id)
    \/ CreateBatchInsertRow
    \/ CreateBatchInsertMember
    \/ CreateBatchError
    \/ \E r \in OneReviewer, id \in BatchIds : SubmitReview(r, id)
    \/ \E r \in OneReviewer : ReviewGetBatch(r)
    \/ \E r \in OneReviewer : ReviewDbError(r)
    \/ \E r \in OneReviewer, u \in Uris, d \in Decisions : ReviewMark(r, u, d)
    \/ \E r \in OneReviewer, u \in Uris : ReviewMarkSignError(r, u)
    \/ \E r \in OneReviewer : ReviewStoreNextval(r)
    \/ \E r \in OneReviewer : ReviewStoreCommit(r)
    \/ \E r \in OneReviewer : ReviewStoreResolution(r)
    \/ \E r \in OneReviewer : ReviewBroadcast(r)
    \/ \E r \in OneReviewer : ReviewPending(r)
    \/ \E r \in OneReviewer : ReviewUpdate(r)

SpecBatch == Init /\ [][NextBatch]_vars

(***************************************************************************)
(* Specification of the decisions' effect on the log and the feed: flags   *)
(* are emitted, a batch is created from the pending flags and reviewed     *)
(* while a subscriber may attach to the live feed.                         *)
(***************************************************************************)
NextDecide ==
    \/ EmitLabel("emit", "A", CV, FALSE, FALSE)
    \/ StoreLabelNextval("emit")
    \/ StoreLabelCommit("emit")
    \/ Broadcast("emit")
    \/ \E s \in OneSubscriber : ConnectNow(s)
    \/ \E s \in OneSubscriber : LatestRead(s)
    \/ \E s \in OneSubscriber : Subscribe(s)
    \/ \E id \in GeneratedIds : CreateBatch(<<>>, id)
    \/ CreateBatchInsertRow
    \/ CreateBatchInsertMember
    \/ \E r \in OneReviewer, id \in GeneratedIds : SubmitReview(r, id)
    \/ \E r \in OneReviewer : ReviewGetBatch(r)
    \/ \E r \in OneReviewer, d \in Decisions : ReviewMark(r, "A", d)
    \/ \E r \in OneReviewer : ReviewStoreNextval(r)
    \/ \E r \in OneReviewer : ReviewStoreCommit(r)
    \/ \E r \in OneReviewer : ReviewStoreResolution(r)
    \/ \E r \in OneReviewer : ReviewBroadcast(r)
    \/ \E r \in OneReviewer : ReviewPending(r)
    \/ \E r \in OneReviewer : ReviewUpdate(r)

SpecDecide == Init /\ [][NextDecide]_vars

(***************************************************************************)
(* Specification of submit_review with the failures inside the clear arm:  *)
(* a batch over one target is created and reviewed, sign_label,            *)
(* store_label and store_resolution may fail, a subscriber may attach to   *)
(* the live feed.                                                          *)
(***************************************************************************)
NextFail ==
    \/ \E s \in OneSubscriber : ConnectNow(s)
    \/ \E s \in OneSubscriber : LatestRead(s)
    \/ \E s \in OneSubscriber : Subscribe(s)
    \/ \E id \in GeneratedIds : CreateBatch(<<"A">>, id)
    \/ CreateBatchInsertRow
    \/ CreateBatchInsertMember
    \/ \E r \in OneReviewer, id \in GeneratedIds : SubmitReview(r, id)
    \/ \E r \in OneReviewer : ReviewGetBatch(r)
    \/ \E r \in OneReviewer, d \in Decisions : ReviewMark(r, "A", d)
    \/ \E r \in OneReviewer : ReviewMarkSignError(r, "A")
    \/ \E r \in OneReviewer : ReviewStoreNextval(r)
    \/ \E r \in OneReviewer : ReviewStoreCommit(r)
    \/ \E r \in OneReviewer : ReviewStoreRollback(r)
    \/ \E r \in OneReviewer : ReviewStoreResolution(r)
    \/ \E r \in OneReviewer : ReviewStoreResolutionError(r)
    \/ \E r \in OneReviewer : ReviewBroadcast(r)
    \/ \E r \in OneReviewer : ReviewPending(r)
    \/ \E r \in OneReviewer : ReviewUpdate(r)

SpecFail == Init /\ [][NextFail]_vars

(***************************************************************************)
(* Specification of a reconnect: one emission task appends in order, one   *)
(* client starts at cursor 0, may fall behind the feed, and reconnects     *)
(* with its last_seen.                                                     *)
(***************************************************************************)
NextReconnect ==
    \/ EmitLabel("emit", "A", CV, FALSE, FALSE)
    \/ StoreLabelNextval("emit")
    \/ StoreLabelCommit("emit")
    \/ Broadcast("emit")
    \/ \E s \in OneSubscriber : Connect(s, 0)
    \/ \E s \in OneSubscriber : BackfillRead(s)
    \/ \E s \in OneSubscriber : BackfillSend(s)
    \/ \E s \in OneSubscriber : Subscribe(s)
    \/ \E s \in OneSubscriber : RecvLive(s)
    \/ \E s \in OneSubscriber : RecvLagged(s)
    \/ \E s \in OneSubscriber : Reconnect(s)

SpecReconnect == Init /\ [][NextReconnect]_vars

(***************************************************************************)
(* Specification of a lagging session: one emission task, two sessions     *)
(* that start from now and read the feed at their own pace.                *)
(***************************************************************************)
NextLag ==
    \/ EmitLabel("emit", "A", CV, FALSE, FALSE)
    \/ StoreLabelNextval("emit")
    \/ StoreLabelCommit("emit")
    \/ Broadcast("emit")
    \/ \E s \in Subscribers : ConnectNow(s)
    \/ \E s \in Subscribers : LatestRead(s)
    \/ \E s \in Subscribers : Subscribe(s)
    \/ \E s \in Subscribers : RecvLive(s)
    \/ \E s \in Subscribers : RecvLagged(s)

SpecLag == Init /\ [][NextLag]_vars

(***************************************************************************)
(* Specification of concurrent reviews: a batch over two targets is        *)
(* created and two submit_review requests run on it at once.               *)
(***************************************************************************)
NextTogether ==
    \/ \E id \in GeneratedIds : CreateBatch(<<"A", "B">>, id)
    \/ CreateBatchInsertRow
    \/ CreateBatchInsertMember
    \/ \E r \in Reviewers, id \in GeneratedIds : SubmitReview(r, id)
    \/ \E r \in Reviewers : ReviewGetBatch(r)
    \/ \E r \in Reviewers : ReviewDbError(r)
    \/ \E r \in Reviewers, u \in Uris, d \in {"defer", "confirm"} : ReviewMark(r, u, d)
    \/ \E r \in Reviewers : ReviewPending(r)
    \/ \E r \in Reviewers : ReviewUpdate(r)

SpecTogether == Init /\ [][NextTogether]_vars

(***************************************************************************)
(* Label values: struct Label, Label::new, with_cid, negated, sign.        *)
(* An absent Option is "null"; `some` tells a built label from none.       *)
(***************************************************************************)
\* what the builders are called with
LabelSrcs == {"did:plc:labeler", "did:plc:test"}
LabelVals == {"copyright-violation", "spam"}
Cids == {"cid1"}
\* Utc::now() at the call
Timestamps == {"t1", "t2"}
SigningKeys == {"k1", "k2"}

\* signature.to_bytes().len()
SignatureLen == 64

\* the fields of struct UnsignedLabel, as DAG-CBOR orders the keys of a map
UnsignedFields == <<"cid", "cts", "exp", "neg", "src", "uri", "val", "ver">>

\* serde_ipld_dagcbor::to_vec: the <<key, value>> entries of the fields that
\* are not skipped (skip_serializing_if = "Option::is_none")
RECURSIVE to_vec(_, _)
to_vec(l, fields) ==
    IF fields = <<>> THEN <<>>
    ELSE (IF l[Head(fields)] = "null" THEN <<>> ELSE <<<<Head(fields), l[Head(fields)]>>>>)
            \o to_vec(l, Tail(fields))

\* Label::new(src, uri, val) at time cts
Label_new(src, uri, val, cts) ==
    [some |-> TRUE, ver |-> "1", src |-> src, uri |-> uri, cid |-> "null", val |-> val,
     neg |-> "null", cts |-> cts, exp |-> "null", sig |-> NoSig]

with_cid(l, cid) == [l EXCEPT !.cid = cid]

negated(l) == [l EXCEPT !.neg = "true"]

\* Label::sign: the UnsignedLabel of the fields, its DAG-CBOR bytes, the
\* signature of the key over them (deterministic, RFC 6979), attached as sig
\* a signature made over the label as it stands, a signature it carries included
sign_whole(l, key) ==
    [l EXCEPT !.sig = [key |-> key, len |-> SignatureLen,
                       msg |-> to_vec(l, UnsignedFields) \o
                               (IF l.sig = NoSig THEN <<>> ELSE <<<<"sig", l.sig.key>>>>)]]
sign(l, key) ==
    [l EXCEPT !.sig = [key |-> key, msg |-> to_vec(l, UnsignedFields), len |-> SignatureLen]]

LabelNew(src, uri, val, cts) ==
    /\ draft' = Label_new(src, uri, val, cts)
    /\ UNCHANGED <<labels, seq_counter, burned, context, emit, sent, sub, reader, pager, batchVars>>

WithCid(cid) ==
    /\ draft.some
    /\ draft' = with_cid(draft, cid)
    /\ UNCHANGED <<labels, seq_counter, burned, context, emit, sent, sub, reader, pager, batchVars>>

Negated ==
    /\ draft.some
    /\ draft' = negated(draft)
    /\ UNCHANGED <<labels, seq_counter, burned, context, emit, sent, sub, reader, pager, batchVars>>

\* label.sign(&signing_key), also of a label that carries a signature
SignLabel(key) ==
    /\ draft.some
    /\ draft' = sign(draft, key)
    /\ UNCHANGED <<labels, seq_counter, burned, context, emit, sent, sub, reader, pager, batchVars>>

NextSign ==
    \/ \E src \in LabelSrcs, u \in Uris, v \in LabelVals, t \in Timestamps :
            LabelNew(src, u, v, t)
    \/ \E c \in Cids : WithCid(c)
    \/ Negated
    \/ \E k \in SigningKeys : SignLabel(k)

SpecSign == Init /\ [][NextSign]_vars

(***************************************************************************)
(* Specification of the Context writes: the admin store_context endpoint   *)
(* and LabelDb::store_resolution over the label_context rows.              *)
(***************************************************************************)
\* the variants of enum ResolutionReason
ResolutionReasons == {"OriginalArtist", "Licensed", "FingerprintNoise",
                      "CoverVersion", "ContentDeleted", "Other"}

\* ResolutionReason::from_str: the snake_case names, None for anything else
from_str(str) ==
    CASE str = "original_artist"   -> "OriginalArtist"
      [] str = "licensed"          -> "Licensed"
      [] str = "fingerprint_noise" -> "FingerprintNoise"
      [] str = "cover_version"     -> "CoverVersion"
      [] str = "content_deleted"   -> "ContentDeleted"
      [] str = "other"             -> "Other"
      [] OTHER                     -> "null"

\* get_context, and the context columns of get_pending_flags: the row's
\* resolution_reason, when not NULL, goes through from_str
get_context(ctx, uri) ==
    IF ~ctx[uri].present THEN NoContext
    ELSE [present |-> TRUE, title |-> ctx[uri].title,
          reason |-> IF ctx[uri].reason = "null" THEN "null"
                     ELSE from_str(ctx[uri].reason)]

\* track_title of a request: absent or one of two titles
Titles == {"null", "t1", "t2"}

\* admin store_context: db.store_context(&request.uri, &label_ctx), the
\* payload carrying no resolution reason
AdminStoreContext(u, title) ==
    /\ context' = store_context(context, u, title, "null")
    /\ UNCHANGED <<draft, labels, seq_counter, burned, emit, sent, sub, reader, pager, batchVars>>

\* db.store_resolution(uri, reason, notes)
StoreResolution(u, reason) ==
    /\ context' = store_resolution(context, u, reason)
    /\ UNCHANGED <<draft, labels, seq_counter, burned, emit, sent, sub, reader, pager, batchVars>>

NextContext ==
    \/ \E u \in Uris, t \in Titles : AdminStoreContext(u, t)
    \/ \E u \in Uris, r \in ResolutionReasons : StoreResolution(u, r)

SpecContext == Init /\ [][NextContext]_vars

(***************************************************************************)
(* Vocabulary of the properties.                                           *)
(***************************************************************************)
DeliveredSeqs(s) == {sub[s].delivered[i].seq : i \in 1..Len(sub[s].delivered)}

InFlight == {e \in Emitters : emit[e].pc = "insert"}

HasAssert(log, u) == \E r \in log : r.uri = u /\ r.val = CV /\ ~r.neg

HasNeg(log, u) == \E r \in log : r.uri = u /\ r.val = CV /\ r.neg

Perms(S) == Permutations(S)

\* the same labels stored in another order
Reorder(log, p) == {[r EXCEPT !.seq = p[r.seq]] : r \in log}

ResolvedOf(flags) == {<<flags[i].uri, flags[i].resolved>> : i \in 1..Len(flags)}

(***************************************************************************)
(* Distribution.                                                           *)
(***************************************************************************)
\* C1: a session opened with cursor c that stays connected and never lags has
\* been delivered every stored label with seq > c, once it has drained the
\* live feed and no emission sits between its store and its broadcast.
C1_NoGapAcrossTransition ==
    \A s \in Subscribers :
        (/\ sub[s].pc = "live" /\ sub[s].has_cursor /\ ~sub[s].lagged
         /\ sub[s].next > Len(sent)
         /\ \A e \in Emitters : emit[e].pc \notin {"ctx", "bcast"})
        => \A r \in labels : r.seq > sub[s].cursor => r.seq \in DeliveredSeqs(s)

\* C2: within one session the delivered sequence numbers are strictly
\* increasing across backfill and live phase (so none is delivered twice).
C2_DeliveredStrictlyIncreasing ==
    \A s \in Subscribers :
        \A i, j \in 1..Len(sub[s].delivered) :
            i < j => sub[s].delivered[i].seq < sub[s].delivered[j].seq

\* C2 witness: a session that delivered by backfill and then by the live feed.
C2_Witness ==
    \E s \in Subscribers :
        /\ Len(sub[s].delivered) >= 2
        /\ sub[s].delivered[1].via = "backfill"
        /\ sub[s].delivered[Len(sub[s].delivered)].via = "live"

\* C4: every delivered sequence number, and every broadcast one, is the seq of
\* a row already in the labels table.
C4_DeliveredIsStored ==
    /\ \A s \in Subscribers : DeliveredSeqs(s) \subseteq Seqs(labels)
    /\ \A i \in 1..Len(sent) : sent[i].seq \in Seqs(labels)

\* C4 witness: a message delivered from the live feed.
C4_Witness ==
    \E s \in Subscribers : \E i \in 1..Len(sub[s].delivered) :
        sub[s].delivered[i].via = "live"

C5_FailureAppliesNothing ==
    /\ [](\A e \in Emitters : emit[e].pc \in {"store", "insert"} =>
            /\ emit[e].seq = 0
            /\ emit[e].pc = "insert" =>
                 /\ emit[e].alloc \notin Seqs(labels)
                 /\ \A i \in 1..Len(sent) : sent[i].seq # emit[e].alloc)
    /\ [][\A e \in Emitters : (emit'[e].pc = "err" /\ emit[e].pc # "err") =>
            /\ labels' = labels
            /\ get_latest_seq(labels') = get_latest_seq(labels)
            /\ sent' = sent]_vars

\* C5 witness: a request ended in error after drawing a sequence value while
\* a subscriber is attached to the live feed.
C5_Witness ==
    /\ burned # {}
    /\ \E e \in Emitters : emit[e].pc = "err"
    /\ Receivers # {}

\* C6: once the label is stored the request cannot fail: the broadcast step
\* is always possible, whatever the receivers and the buffer, and the request
\* ends in success with the stored sequence number.
C6_EmissionIndependentOfSubscribers ==
    /\ [](\A e \in Emitters : emit[e].pc = "bcast" => ENABLED Broadcast(e))
    /\ [][\A e \in Emitters : emit[e].pc \in {"ctx", "bcast"} =>
            /\ emit'[e].pc \in {"ctx", "bcast", "ok"}
            /\ emit'[e].pc = "ok" =>
                 /\ emit'[e].seq = emit[e].seq
                 /\ emit[e].seq \in Seqs(labels)]_vars

\* C6 witness: a request answered with success while the attached receiver
\* has fallen behind the retained window of the feed.
C6_Witness ==
    /\ \E e \in Emitters : emit[e].pc = "ok" /\ emit[e].seq > 0
    /\ \E s \in Receivers : sub[s].next < Oldest(sent)

(***************************************************************************)
(* Derived status.                                                         *)
(***************************************************************************)
\* C7: get_active_labels(candidates) returns a subset of the candidates, the
\* empty list for no candidates, and, on a log that no append changes during
\* the call, exactly the candidates with an asserting and no negating label.
C7_ActiveTargetsExact ==
    /\ []((reader.pc = "done" /\ reader.kind = "active") =>
            /\ reader.result \subseteq reader.uris
            /\ reader.uris = {} => reader.result = {})
    /\ [][(reader.pc = "pos" /\ reader'.pc = "done" /\ reader.log0 = labels) =>
            reader'.result =
                {u \in reader.uris : HasAssert(labels, u) /\ ~HasNeg(labels, u)}]_vars

\* C7 witness: a call over both targets that returned one and left out the
\* other, which is asserted and negated.
C7_Witness ==
    /\ reader.pc = "done" /\ reader.kind = "active"
    /\ reader.uris = {"A", "B"} /\ reader.result = {"A"}
    /\ HasAssert(labels, "B") /\ HasNeg(labels, "B")

\* C8: storing the same labels in any other order gives the same
\* active targets for every candidate list and the same resolved flags.
C8_OrderIndependent ==
    LET active   == [U \in SUBSET Uris |-> get_active_labels(labels, U)]
        resolved == ResolvedOf(get_pending_flags(labels, context))
    IN  \A p \in Perms(Seqs(labels)) :
            LET other == Reorder(labels, p)
            IN  /\ \A U \in SUBSET Uris : get_active_labels(other, U) = active[U]
                /\ ResolvedOf(get_pending_flags(other, context)) = resolved

\* C8 witness: a log in which the negating label of a target was stored before
\* its asserting label; the derivation gives the target inactive and the
\* asserting label resolved.
C8_Witness ==
    \E n, a \in labels :
        /\ n.uri = a.uri /\ n.val = CV /\ a.val = CV
        /\ n.neg /\ ~a.neg /\ n.seq < a.seq
        /\ get_active_labels(labels, {a.uri}) = {}
        /\ LET f == get_pending_flags(labels, context)
           IN  \E i \in 1..Len(f) : f[i].seq = a.seq /\ f[i].resolved

\* C9: once a negating label for a target is stored, the target stays negated
\* and inactive in every later state, and a further negating label for it
\* changes no target's derived status.
C9_ResolutionAbsorbing ==
    /\ [](\A u \in Uris : HasNeg(labels, u) => get_active_labels(labels, {u}) = {})
    /\ [][\A u \in Uris : HasNeg(labels, u) =>
            /\ HasNeg(labels', u)
            /\ get_active_labels(labels', {u}) = {}
            /\ (\E r \in labels' \ labels : r.uri = u /\ r.val = CV /\ r.neg) =>
                 /\ \A U \in SUBSET Uris :
                       get_active_labels(labels', U) = get_active_labels(labels, U)
                 /\ ResolvedOf(get_pending_flags(labels', context'))
                       = ResolvedOf(get_pending_flags(labels, context))]_vars

\* C9 witness: a target negated, asserted afresh and negated again, for which a
\* call returned nothing.
C9_Witness ==
    /\ \E n, a, m \in labels :
          /\ n.uri = "A" /\ a.uri = "A" /\ m.uri = "A"
          /\ n.val = CV /\ a.val = CV /\ m.val = CV
          /\ n.neg /\ ~a.neg /\ m.neg
          /\ n.seq < a.seq /\ a.seq < m.seq
    /\ reader.pc = "done" /\ reader.kind = "active"
    /\ reader.uris = {"A"} /\ reader.result = {}

\* C10: on a log that no append changes during the call, get_pending_flags
\* returns one entry per asserting label of the flag value, by seq descending,
\* each resolved exactly when its target has a negating label; a target has an
\* unresolved entry iff it is an active target.
C10_PendingFlags ==
    [][(reader.pc = "rows" /\ reader'.pc = "done" /\ reader.log0 = labels) =>
        LET f == reader'.flags
            asserting == {r \in labels : r.val = CV /\ ~r.neg}
        IN  /\ Len(f) = Cardinality(asserting)
            /\ \A i \in 1..Len(f) :
                  /\ \E r \in asserting : r.seq = f[i].seq /\ r.uri = f[i].uri
                  /\ f[i].resolved = HasNeg(labels, f[i].uri)
            /\ \A i, j \in 1..Len(f) : i < j => f[i].seq > f[j].seq
            /\ \A u \in Uris :
                  (\E i \in 1..Len(f) : f[i].uri = u /\ ~f[i].resolved)
                    <=> u \in get_active_labels(labels, {u})]_vars

\* C10 witness: a target asserted twice appears twice, both entries resolved.
C10_Witness ==
    /\ reader.pc = "done" /\ reader.kind = "pending"
    /\ Len(reader.flags) = 2
    /\ reader.flags[1].uri = reader.flags[2].uri
    /\ reader.flags[1].resolved /\ reader.flags[2].resolved

(***************************************************************************)
(* queryLabels.                                                            *)
(***************************************************************************)
\* C11: when a walk over the continuation cursors ends and no append changed
\* the log during it, the pages hold every matching label above the starting
\* cursor exactly once in ascending order, each page at most the limit; a
\* page's cursor is the text of its last sequence number exactly when a
\* matching label lies after it, and only the last page has none.
C11_PaginationComplete ==
    [][(pager.pc # "done" /\ pager'.pc = "done" /\ pager'.log0 = labels) =>
        LET pg       == pager'.pages
            matching == query_matching(labels, pager'.patterns, pager'.sources,
                                       pager'.start)
            all      == SortAsc(matching)
            Flat(n)  == UNION {{<<i, j>> : j \in 1..Len(pg[i].seqs)} : i \in 1..n}
        IN  /\ Cardinality(Flat(Len(pg))) = Len(all)
            /\ \A i \in 1..Len(pg) : \A j \in 1..Len(pg[i].seqs) :
                  pg[i].seqs[j] = all[Cardinality(Flat(i - 1)) + j].seq
            /\ \A i \in 1..Len(pg) :
                  /\ Len(pg[i].seqs) <= pager'.limit
                  /\ pg[i].cursor.some <=>
                        /\ pg[i].seqs # <<>>
                        /\ \E r \in matching : r.seq > pg[i].seqs[Len(pg[i].seqs)]
                  /\ pg[i].cursor.some =>
                        pg[i].cursor.str = to_string(pg[i].seqs[Len(pg[i].seqs)])
                  /\ pg[i].cursor.some <=> i < Len(pg)]_vars

\* C11 witness: a walk of three pages over an unchanged log of three matching
\* labels, the last page without a cursor.
C11_Witness ==
    /\ pager.pc = "done" /\ pager.log0 = labels
    /\ Len(pager.pages) = 3
    /\ \A i \in 1..3 : Len(pager.pages[i].seqs) = 1
    /\ ~pager.pages[3].cursor.some

(***************************************************************************)
(* Review batches.                                                         *)
(***************************************************************************)
\* C12: a batch's status only moves from pending to completed: no step of
\* create_batch or submit_review returns a completed batch to pending or
\* removes a batch, submissions to a completed batch included.
C12_StatusMonotone ==
    [][\A b \in BatchIds :
          /\ batches[b] = "completed" => batches'[b] = "completed"
          /\ batches[b] = "pending" => batches'[b] \in {"pending", "completed"}]_vars

\* C12 witness: a further submission to an already completed batch has reached
\* its status update.
C12_Witness ==
    \E r \in Reviewers :
        /\ review[r].pc = "update"
        /\ batches[review[r].batch] = "completed"

\* C13: when submit_review returns successfully, its batch is completed if
\* every member of the batch is reviewed and pending if a member is still
\* unreviewed, whatever the decision strings recorded.
C13_CompletedIffAllReviewed ==
    [][\A r \in Reviewers :
          (review[r].pc \in {"loop", "update"} /\ review'[r].pc = "ok") =>
              LET b == review[r].batch
                  unreviewed == {f \in batch_flags' : f.batch_id = b /\ ~f.reviewed}
              IN  batches'[b] = IF unreviewed = {} THEN "completed" ELSE "pending"]_vars

\* the negating label a clear decision of request r builds, under the seq
\* store_label returned
ClearLabel(r) == [seq |-> review[r].seq, uri |-> review[r].uri, val |-> CV, neg |-> TRUE]

IsMember(b, u) == \E f \in batch_flags : f.batch_id = b /\ f.uri = u

\* C14: a clear decision for a batch member appends exactly one label, a
\* negation of the flag value for that target under a sequence number never
\* used before; it sends that label to the live feed; once the decision is
\* processed, and in every state after a negation is stored, the target is
\* not an active target.
C14_ClearNegates ==
    /\ [][\A r \in Reviewers :
            LET rv == review[r]
            IN  /\ (rv.pc = "insert" /\ review'[r].pc = "resolution"
                        /\ IsMember(rv.batch, rv.uri)) =>
                      \E row \in labels' \ labels :
                          /\ labels' = labels \cup {row}
                          /\ row.uri = rv.uri /\ row.val = CV /\ row.neg
                          /\ row.seq \notin Seqs(labels) \cup burned
                          /\ row.seq = review'[r].seq
                /\ (rv.pc \in {"store", "resolution", "bcast"} /\ review'[r].pc # rv.pc) =>
                      labels' = labels
                /\ (rv.pc = "bcast" /\ review'[r].pc = "loop"
                        /\ IsMember(rv.batch, rv.uri)) =>
                      /\ ClearLabel(r) \in labels
                      /\ Receivers # {} => sent' = Append(sent, ClearLabel(r))
                      /\ get_active_labels(labels', {rv.uri}) = {}]_vars
    /\ [](\A u \in Uris : HasNeg(labels, u) => get_active_labels(labels, {u}) = {})

\* C14 witness: a request has processed a clear decision for a flagged member
\* while a subscriber was live: the negation is stored and sent, the member is
\* recorded as cleared and the target is not active.
C14_Witness ==
    \E r \in Reviewers, s \in Subscribers :
        /\ review[r].pc = "loop" /\ review[r].resolved_count = 1
        /\ sub[s].pc = "live"
        /\ \E f \in batch_flags : f.uri = "A" /\ f.reviewed /\ f.decision = "clear"
        /\ HasAssert(labels, "A")
        /\ \E i \in 1..Len(sent) : sent[i].neg /\ sent[i].uri = "A" /\ sent[i] \in labels
        /\ get_active_labels(labels, {"A"}) = {}

\* C15: a defer or confirm decision sets the member's reviewed flag and records
\* that decision; every other member, the batch statuses, the label log, the
\* latest sequence number, the contexts, the live feed and every target's
\* active status are as before the decision.
C15_DeferConfirmFrame ==
    [][\A r \in Reviewers, u \in Uris, d \in {"defer", "confirm"} :
          ReviewMark(r, u, d) =>
              /\ \A f \in batch_flags :
                    IF f.batch_id = review[r].batch /\ f.uri = u
                    THEN [f EXCEPT !.reviewed = TRUE, !.decision = d] \in batch_flags'
                    ELSE f \in batch_flags'
              /\ Cardinality(batch_flags') <= Cardinality(batch_flags)
              /\ batches' = batches
              /\ labels' = labels
              /\ get_latest_seq(labels') = get_latest_seq(labels)
              /\ context' = context
              /\ sent' = sent
              /\ \A U \in SUBSET Uris :
                    get_active_labels(labels', U) = get_active_labels(labels, U)]_vars

\* C15 witness: a member whose target is an active flag is recorded as deferred
\* or confirmed while a subscriber is live, and nothing was sent.
C15_Witness ==
    \E r \in Reviewers, s \in Subscribers :
        /\ review[r].pc = "loop" /\ review[r].n = 1 /\ review[r].resolved_count = 0
        /\ sub[s].pc = "live" /\ sent = <<>>
        /\ \E f \in batch_flags :
              /\ f.batch_id = review[r].batch /\ f.reviewed
              /\ f.decision \in {"defer", "confirm"}
              /\ get_active_labels(labels, {f.uri}) = {f.uri}

\* C16: a decision with an unrecognized string does not abort its request:
\* the request stays in its decision loop with the next decision to come,
\* what the decisions before it did (labels, sends, resolved count, the other
\* members' records, the batch statuses) is kept, and the state the decisions
\* after it start from differs in nothing else.
C16_UnknownDecisionSkipped ==
    [][\A r \in Reviewers, u \in Uris, d \in Decisions \ {"clear", "defer", "confirm"} :
          ReviewMark(r, u, d) =>
              /\ review'[r].pc = "loop"
              /\ review'[r].batch = review[r].batch
              /\ review'[r].n = review[r].n + 1
              /\ review'[r].resolved_count = review[r].resolved_count
              /\ labels' = labels /\ sent' = sent /\ context' = context
              /\ batches' = batches
              /\ \A f \in batch_flags :
                    ~(f.batch_id = review[r].batch /\ f.uri = u) => f \in batch_flags']_vars

\* C16 witness: a request that met an unrecognized decision for one member is
\* processing a clear decision for another as its second decision.
C16_Witness ==
    \E r \in Reviewers :
        /\ review[r].pc = "store" /\ review[r].n = 2
        /\ \E f, g \in batch_flags :
              /\ f.batch_id = review[r].batch /\ g.batch_id = review[r].batch
              /\ f.uri # review[r].uri /\ f.decision \notin {"null", "clear", "defer", "confirm"}
              /\ g.uri = review[r].uri /\ g.decision = "clear"

\* C17: a create_batch request whose member list comes out empty fails and
\* writes neither a batch row nor a member; LabelDb::create_batch is never
\* entered with an empty member list.
C17_EmptyBatchRejected ==
    /\ [][\A id \in GeneratedIds, t \in TargetLists :
            (/\ CreateBatch(t, id)
             /\ (IF t = <<>> THEN snapshot_targets(labels, context) ELSE t) = <<>>)
            => /\ creator'.pc = "err"
               /\ batches' = batches
               /\ batch_flags' = batch_flags]_vars
    /\ [](creator.pc \in {"row", "members"} => creator.uris # <<>>)

\* C17 witness: a request that named no target while no flag was pending has
\* failed, and no batch and no member exists.
C17_Witness ==
    /\ creator.pc = "err"
    /\ snapshot_targets(labels, context) = <<>>
    /\ \A b \in BatchIds : batches[b] = "none"
    /\ batch_flags = {}

\* C18: a submit_review whose batch id names no batch returns not-found when
\* get_batch answers and never enters its decision loop; up to that return it
\* marks no member, appends no label, sends nothing and changes no batch
\* status.
C18_UnknownBatchNotFound ==
    [][\A r \in Reviewers :
          (review[r].pc = "get" /\ review'[r] # review[r]) =>
              /\ batches[review[r].batch] = "none" => review'[r].pc # "loop"
              /\ (ReviewGetBatch(r) /\ batches[review[r].batch] = "none") =>
                    review'[r].pc = "notfound"
              /\ batch_flags' = batch_flags
              /\ batches' = batches
              /\ labels' = labels /\ seq_counter' = seq_counter
              /\ context' = context
              /\ sent' = sent]_vars

\* C18 witness: a request was answered not-found while another batch exists
\* with all its members unreviewed.
C18_Witness ==
    \E r \in Reviewers :
        /\ review[r].pc = "notfound"
        /\ batches["b1"] = "pending" /\ batches["b2"] = "none"
        /\ batch_flags # {}
        /\ \A f \in batch_flags : ~f.reviewed
        /\ labels = {} /\ sent = <<>>

(***************************************************************************)
(* Emission: the context side write.                                       *)
(***************************************************************************)
\* the label of request e under the seq store_label returned
EmittedLabel(e) == [seq |-> emit[e].seq, uri |-> emit[e].uri, val |-> emit[e].val,
                    neg |-> emit[e].neg]

\* C19: when store_context fails during an emission the request goes on to
\* its broadcast with the label still stored under its sequence number, the
\* log and the contexts untouched by the failure; the broadcast then sends
\* that label to the live feed and the caller is answered with success and
\* that sequence number.
C19_ContextFailureTolerated ==
    [][\A e \in Emitters :
          /\ StoreContextError(e) =>
                /\ emit'[e].pc = "bcast"
                /\ emit'[e].seq = emit[e].seq
                /\ EmittedLabel(e) \in labels
                /\ labels' = labels
                /\ context' = context
          /\ (emit[e].pc = "bcast" /\ emit'[e] # emit[e]) =>
                /\ emit'[e].pc = "ok"
                /\ emit'[e].seq = emit[e].seq
                /\ EmittedLabel(e) \in labels'
                /\ Receivers # {} => sent' = Append(sent, EmittedLabel(e))]_vars

\* C19 witness: an emission that carried a context is at its broadcast with
\* its label stored while no context row exists for the target, and a
\* subscriber is live.
C19_Witness ==
    \E e \in Emitters :
        /\ emit[e].pc = "bcast" /\ emit[e].ctx
        /\ ~context[emit[e].uri].present
        /\ EmittedLabel(e) \in labels
        /\ Receivers # {}

(***************************************************************************)
(* The label log is append-only.                                           *)
(***************************************************************************)
\* C20: no step removes a stored label or changes its fields or its sequence
\* number: the log after a step contains the log before it, a sequence number
\* keeps the label it was stored with, and get_latest_seq never decreases.
C20_AppendOnly ==
    [][/\ labels \subseteq labels'
       /\ \A r \in labels, q \in labels' : q.seq = r.seq => q = r
       /\ get_latest_seq(labels') >= get_latest_seq(labels)]_vars

\* C20 witness: a target asserted, negated and asserted again: three labels
\* under three sequence numbers, the first two still stored as they were.
C20_Witness ==
    \E a, n, b \in labels :
        /\ a.seq < n.seq /\ n.seq < b.seq
        /\ a.uri = n.uri /\ n.uri = b.uri
        /\ ~a.neg /\ n.neg /\ ~b.neg

(***************************************************************************)
(* Sessions without a cursor.                                              *)
(***************************************************************************)
\* C21: a session opened without a cursor is delivered every label appended
\* after it connected. Stated for a session whose get_latest_seq answered
\* k >= 1 (every label above k was then stored after the read, so after the
\* connect): once it is live, has not lagged, has drained the feed and no
\* emission sits between its store and its broadcast, every stored label above
\* k has been delivered to it.
C21_StartsFromNow ==
    \A s \in Subscribers :
        (/\ sub[s].pc = "live" /\ ~sub[s].has_cursor /\ ~sub[s].lagged
         /\ sub[s].start_seq >= 1
         /\ sub[s].next > Len(sent)
         /\ \A e \in Emitters : emit[e].pc \notin {"ctx", "bcast"})
        => \A r \in labels : r.seq > sub[s].start_seq => r.seq \in DeliveredSeqs(s)

(***************************************************************************)
(* Context rows.                                                           *)
(***************************************************************************)
\* C22: a Context write for a target that already has a Context row never
\* changes a field that holds a value: the title and the resolution reason,
\* once present, stay as they are (a field the write omits is among them).
C22_ContextNeverOverwritten ==
    [][\A u \in Uris :
          context[u].present =>
              /\ context[u].title # "null" => context'[u].title = context[u].title
              /\ context[u].reason # "null" => context'[u].reason = context[u].reason]_vars

(***************************************************************************)
(* resolve.                                                                *)
(***************************************************************************)
\* C23: when a resolve request returns, its negating label is stored under
\* the sequence number it returns, it has been sent to the live feed, and the
\* target's Context row holds a resolution reason.
C23_ResolveRecordsReason ==
    [][\A e \in Emitters :
          (emit[e].kind = "resolve" /\ emit[e].pc = "bcast" /\ emit'[e].pc = "ok") =>
              /\ emit[e].neg
              /\ EmittedLabel(e) \in labels'
              /\ emit'[e].seq = emit[e].seq
              /\ Receivers # {} => sent' = Append(sent, EmittedLabel(e))
              /\ context'[emit[e].uri].present
              /\ context'[emit[e].uri].reason # "null"]_vars

(***************************************************************************)
(* Backfill.                                                               *)
(***************************************************************************)
\* C24: the backfill of a session that presents cursor c reads, and then
\* delivers one by one before any live event, every label stored above c at
\* the time of the read in ascending order, however many there are; with c not
\* beyond the log the session's starting last_seq is the latest stored
\* sequence number.
C24_BackfillComplete ==
    /\ [][\A s \in Subscribers :
            (sub[s].pc = "read" /\ sub[s].has_cursor /\ sub'[s].pc = "sending") =>
                /\ sub'[s].rows = SortAsc({r \in labels : r.seq > sub[s].cursor})
                /\ sub[s].cursor <= get_latest_seq(labels) =>
                      sub'[s].start_seq = get_latest_seq(labels)]_vars
    /\ [](\A s \in Subscribers : \A i, j \in 1..Len(sub[s].delivered) :
            LET d == sub[s].delivered
            IN  /\ d[i].via = "backfill" => d[i].seq > sub[s].cursor
                /\ (i < j /\ d[j].via = "backfill") =>
                      d[i].via = "backfill" /\ d[i].seq < d[j].seq)

(***************************************************************************)
(* Concurrent emissions and the live feed.                                 *)
(***************************************************************************)
\* C25: a session attached to the live feed that has not lagged and has
\* drained the feed has been delivered every label that was broadcast while
\* it was attached and was stored after the read it started from, in whatever
\* order concurrent requests drew their sequence numbers and sent. (`sent`
\* holds exactly what was sent while the one session was attached; a label
\* above start_seq was stored after the session's read when that read
\* answered, which a cursor or a start_seq of at least 1 shows.)
C25_ConcurrentEmissionsDelivered ==
    \A s \in Subscribers :
        (/\ sub[s].pc = "live" /\ ~sub[s].lagged /\ sub[s].next > Len(sent)
         /\ (sub[s].has_cursor \/ sub[s].start_seq >= 1)) =>
            \A i \in 1..Len(sent) :
                sent[i].seq > sub[s].start_seq => sent[i].seq \in DeliveredSeqs(s)

(***************************************************************************)
(* Every append is broadcast.                                              *)
(***************************************************************************)
\* C26: a request that has appended its label (emit, resolve, or a clear
\* decision of submit_review) goes on to send exactly that label under its
\* assigned sequence number to the live feed, whatever side-write follows the
\* append, and no sequence number is sent twice.
C26_EveryAppendBroadcast ==
    /\ [][/\ \A e \in Emitters :
               (emit[e].pc \in {"ctx", "bcast"} /\ emit'[e] # emit[e]) =>
                   \/ emit'[e].pc = "bcast" /\ emit'[e].seq = emit[e].seq
                   \/ emit[e].pc = "bcast" /\ sent' = Send(sent, EmittedLabel(e))
          /\ \A r \in Reviewers :
               (review[r].pc \in {"resolution", "bcast"} /\ review'[r] # review[r]) =>
                   \/ review'[r].pc = "bcast" /\ review'[r].seq = review[r].seq
                   \/ review[r].pc = "bcast" /\ sent' = Send(sent, ClearLabel(r))]_vars
    /\ [](\A i, j \in 1..Len(sent) : sent[i].seq = sent[j].seq => i = j)

(***************************************************************************)
(* Reconnecting with last_seen.                                            *)
(***************************************************************************)
\* C27: a client that started at cursor 0, missed live events and
\* reconnected with its last_seen as cursor has received, once its second
\* session is live, has not lagged, has drained the feed and no emission is
\* between its store and its broadcast, every stored label exactly once over
\* the two sessions.
C27_ReconnectRecovers ==
    \A s \in Subscribers :
        (/\ sub[s].pc = "live" /\ sub[s].has_cursor /\ sub[s].cursor >= 1
         /\ ~sub[s].lagged /\ sub[s].next > Len(sent)
         /\ \A e \in Emitters : emit[e].pc \notin {"ctx", "bcast"})
        => \A r \in labels :
              Cardinality({i \in 1..Len(sub[s].delivered) :
                              sub[s].delivered[i].seq = r.seq}) = 1

(***************************************************************************)
(* A session that falls behind the live feed.                              *)
(***************************************************************************)
\* C28: when a session has fallen behind the bounded feed, its next receive
\* skips to the oldest retained event without ending the session or touching
\* what it delivered, the feed, the emission tasks or the other sessions; a
\* session that lagged delivers every later event it receives above its
\* last_seq, and live deliveries are in ascending order; a task at its
\* broadcast can always send, and the event it sends with a session behind is
\* appended to the feed, where a session that had caught up can receive it.
C28_LagSkipsWithoutBlocking ==
    /\ [][\A s \in Subscribers :
            /\ (sub[s].pc = "live" /\ sub[s].next < Oldest(sent) /\ sub'[s] # sub[s]) =>
                  /\ sub'[s].pc = "live"
                  /\ sub'[s].next = Oldest(sent)
                  /\ sub'[s].delivered = sub[s].delivered
                  /\ sub'[s].last_seq = sub[s].last_seq
                  /\ sent' = sent /\ emit' = emit
                  /\ \A t \in Subscribers \ {s} : sub'[t] = sub[t]
            /\ (sub[s].pc = "live" /\ sub[s].lagged /\ sub[s].next >= Oldest(sent)
                /\ sub'[s].next = sub[s].next + 1
                /\ sent[sub[s].next].seq > sub[s].last_seq) =>
                  /\ sub'[s].pc = "live"
                  /\ sub'[s].delivered = Append(sub[s].delivered,
                                              [seq |-> sent[sub[s].next].seq, via |-> "live"])
            /\ \A e \in Emitters :
                 (emit[e].pc = "bcast" /\ emit'[e].pc # "bcast" /\ Receivers # {}
                  /\ \E b \in Receivers : sub[b].next <= Len(sent)) =>
                      /\ sent' = Append(sent, EmittedLabel(e))
                      /\ emit'[e].pc = "ok"
                      /\ \A t \in Receivers : sub[t].next = Len(sent) + 1 =>
                            /\ sub'[t] = sub[t]
                            /\ sub'[t].next = Len(sent') /\ sub'[t].next >= Oldest(sent')]_vars
    /\ [](\A e \in Emitters : emit[e].pc = "bcast" => ENABLED Broadcast(e))
    /\ [](\A s \in Subscribers : \A i, j \in 1..Len(sub[s].delivered) :
            LET d == sub[s].delivered
            IN  (i < j /\ d[i].via = "live") => d[i].seq < d[j].seq)

\* C28 witness: a session that lagged missed a stored label above its start
\* and delivered a later one afterwards, while the other session, never
\* lagging, was delivered every stored label.
C28_Witness ==
    \E s, t \in Subscribers :
        /\ s # t
        /\ sub[s].pc = "live" /\ sub[s].lagged /\ sub[s].delivered # <<>>
        /\ sub[s].delivered[1].via = "live"
        /\ \E r \in labels : /\ r.seq > sub[s].start_seq
                             /\ r.seq < sub[s].delivered[1].seq
                             /\ r.seq \notin DeliveredSeqs(s)
        /\ sub[t].pc = "live" /\ ~sub[t].lagged
        /\ labels # {} /\ Seqs(labels) \subseteq DeliveredSeqs(t)

(***************************************************************************)
(* Batch members.                                                          *)
(***************************************************************************)
\* C29: a batch member that is marked reviewed is still a member and still
\* marked reviewed after every step of create_batch and submit_review.
C29_ReviewedStaysReviewed ==
    [][\A f \in batch_flags : f.reviewed =>
          \E g \in batch_flags' :
              g.batch_id = f.batch_id /\ g.uri = f.uri /\ g.reviewed]_vars

\* C29 witness: create_batch is about to insert a member that has already
\* been marked reviewed by a submit_review on the same batch.
C29_Witness ==
    /\ creator.pc = "members"
    /\ \E f \in batch_flags :
          f.batch_id = creator.id /\ f.uri = Head(creator.uris) /\ f.reviewed

\* C30: every batch member's recorded decision is absent or one of clear,
\* defer, confirm, and a step of submit_review that handles a decision with
\* any other string leaves the members as they were.
C30_DecisionsRecognised ==
    /\ [](\A f \in batch_flags : f.decision \in {"null", "clear", "defer", "confirm"})
    /\ [][\A r \in Reviewers :
            (review[r].pc = "loop" /\ review'[r] # review[r]
             /\ review'[r].decision \notin {"null", "clear", "defer", "confirm"}) =>
                batch_flags' = batch_flags]_vars

(***************************************************************************)
(* A failure inside a submit_review request.                               *)
(***************************************************************************)
\* C31: the step at which a decision of a submit_review request fails returns
\* the request with an error and applies no further decision of it; what the
\* decisions before it did stays: every member marked reviewed is still
\* marked, with its decision unless the failing decision names it, every
\* stored label is still stored, the feed and the batch statuses are as they
\* were; and while a request runs, every clear decision it has counted has its
\* negating label in the log.
C31_PartialProgressFinal ==
    /\ [][\A r \in Reviewers :
            (review[r].pc \in {"loop", "store", "insert", "resolution", "bcast"}
             /\ review'[r].pc \notin {"loop", "store", "insert", "resolution", "bcast",
                                      "update", "ok"}) =>
                /\ review'[r] = ReviewReturned("err")
                /\ labels \subseteq labels'
                /\ sent' = sent
                /\ batches' = batches
                /\ \A f \in batch_flags : f.reviewed =>
                      \/ f \in batch_flags'
                      \/ /\ review[r].pc = "loop"
                         /\ \E g \in batch_flags' :
                               g.batch_id = f.batch_id /\ g.uri = f.uri /\ g.reviewed]_vars
    /\ [](\A r \in Reviewers :
            review[r].pc \in {"loop", "store", "insert", "resolution", "bcast"} =>
                Cardinality({row \in labels : row.neg}) >= review[r].resolved_count)

\* C31 witness: a request has returned an error after a sequence value was
\* drawn and lost, with the negating label of a clear decision stored and
\* sent, the member recorded as cleared and the batch still pending.
C31_Witness ==
    \E r \in Reviewers :
        /\ review[r].pc = "err"
        /\ burned # {}
        /\ \E row \in labels : row.neg /\ row.uri = "A"
                                /\ \E i \in 1..Len(sent) : sent[i] = row
        /\ \E f \in batch_flags : f.uri = "A" /\ f.reviewed /\ f.decision = "clear"
        /\ batches["b1"] = "pending"

(***************************************************************************)
(* create_batch: the rows it writes.                                       *)
(***************************************************************************)
\* the member rows of batch b
MembersOf(flags, b) == {f \in flags : f.batch_id = b}

\* C32: a create_batch request with a non-empty list hands that list on as it
\* is, flagged or not; its batch row is written with status pending; each
\* member insert leaves exactly one row for (batch, target), a new one
\* unreviewed and without decision, and touches no other row; a batch that
\* has no row has no member; and no two member rows share (batch, target).
C32_OneMemberPerTarget ==
    /\ [][/\ \A t \in TargetLists, id \in GeneratedIds :
               (CreateBatch(t, id) /\ t # <<>>) =>
                   creator' = [pc |-> "row", id |-> id, uris |-> t]
          /\ (creator.pc = "row" /\ creator'.pc \in {"members", "ok"}) =>
                /\ batches[creator.id] = "none"
                /\ batches'[creator.id] = "pending"
                /\ MembersOf(batch_flags', creator.id) = {}
          /\ (creator.pc = "members" /\ creator' # creator /\ creator'.pc # "err") =>
                LET key == [batch_id |-> creator.id, uri |-> Head(creator.uris)]
                    fresh == [batch_id |-> key.batch_id, uri |-> key.uri,
                              reviewed |-> FALSE, decision |-> "null"]
                    had == {f \in batch_flags :
                               f.batch_id = key.batch_id /\ f.uri = key.uri}
                IN  /\ batch_flags' = IF had = {} THEN batch_flags \cup {fresh}
                                      ELSE batch_flags
                    /\ Cardinality({f \in batch_flags' :
                            f.batch_id = key.batch_id /\ f.uri = key.uri}) = 1]_vars
    /\ [](\A b \in BatchIds : batches[b] = "none" => MembersOf(batch_flags, b) = {})
    /\ [](\A f, g \in batch_flags :
            (f.batch_id = g.batch_id /\ f.uri = g.uri) => f = g)

\* C32 witness: a create_batch over two targets that carry no flag has
\* returned: its batch is pending with one unreviewed member for each.
C32_Witness ==
    /\ creator.pc = "ok"
    /\ labels = {}
    /\ batches["b1"] = "pending"
    /\ MembersOf(batch_flags, "b1") =
          {[batch_id |-> "b1", uri |-> u, reviewed |-> FALSE, decision |-> "null"]
              : u \in {"A", "B"}}

(***************************************************************************)
(* The resolution reason, written and read back.                           *)
(***************************************************************************)
\* C33: after store_resolution has written a resolution reason for a target,
\* get_context (and the context columns of pending_flags, which parse the
\* same way) gives that reason back, for each of the six reasons.
C33_ReasonRoundTrip ==
    [][\A u \in Uris, rs \in ResolutionReasons :
          StoreResolution(u, rs) => get_context(context', u).reason = rs]_vars

(***************************************************************************)
(* Building and signing a label.                                           *)
(***************************************************************************)
\* C34: a label as Label::new returns it has no signature, no negation and
\* no content id; sign attaches a signature of 64 bytes made over the entries
\* of the label's present fields other than sig, and only of those, and
\* leaves every field but sig as it was.
C34_SignFrame ==
    [][/\ \A src \in LabelSrcs, u \in Uris, v \in LabelVals, t \in Timestamps :
            LabelNew(src, u, v, t) =>
                /\ draft'.sig = NoSig /\ draft'.neg = "null" /\ draft'.cid = "null"
                /\ draft'.src = src /\ draft'.uri = u /\ draft'.val = v
       /\ \A k \in SigningKeys :
            SignLabel(k) =>
                LET msg == draft'.sig.msg
                    entries == {msg[i] : i \in 1..Len(msg)}
                IN  /\ draft'.sig # NoSig
                    /\ draft'.sig.len = 64
                    /\ draft'.sig.key = k
                    /\ entries = {<<f, draft[f]>> :
                                     f \in {g \in {"ver", "src", "uri", "cid", "val",
                                                   "neg", "cts", "exp"} :
                                               draft[g] # "null"}}
                    /\ \A f \in {"some", "ver", "src", "uri", "cid", "val", "neg",
                                 "cts", "exp"} : draft'[f] = draft[f]]_vars

\* C34 witness: a negated label with a content id carries a signature.
C34_Witness ==
    /\ draft.some /\ draft.sig # NoSig
    /\ draft.neg = "true" /\ draft.cid # "null"

(***************************************************************************)
(* Completed batches.                                                      *)
(***************************************************************************)
\* C35: a batch whose status is completed has no unreviewed member.
C35_CompletedHasNoUnreviewed ==
    \A b \in BatchIds :
        batches[b] = "completed" => \A f \in MembersOf(batch_flags, b) : f.reviewed

(***************************************************************************)
(* Cleared members and their negating label.                               *)
(***************************************************************************)
\* C36: whenever a batch member is recorded as reviewed with decision clear
\* and no request is between marking that target and storing its label, the
\* log holds a negating label for the member's target.
C36_ClearedHasNegation ==
    \A f \in batch_flags :
        (/\ f.reviewed /\ f.decision = "clear"
         /\ \A r \in Reviewers :
               ~(review[r].pc \in {"store", "insert"} /\ review[r].uri = f.uri))
        => HasNeg(labels, f.uri)

(***************************************************************************)
(* A clear decision for a target outside the batch.                        *)
(***************************************************************************)
\* C37: a clear decision naming a target that is no member of the request's
\* batch changes no member row and no batch status at any of its steps, and
\* goes through the clear arm all the same: it stores a negating label for
\* that target, sends it to the live feed and adds one to resolved_count.
C37_ClearOutsideBatch ==
    [][\A r \in Reviewers :
          LET rv == review[r]
          IN  /\ \A u \in Uris :
                    (ReviewMark(r, u, "clear") /\ ~IsMember(rv.batch, u)) =>
                        /\ batch_flags' = batch_flags /\ batches' = batches
                        /\ review'[r].pc = "store" /\ review'[r].uri = u
              /\ (rv.pc \in {"store", "insert", "resolution", "bcast"}
                      /\ review'[r] # rv /\ ~IsMember(rv.batch, rv.uri)) =>
                    /\ batch_flags' = batch_flags /\ batches' = batches
                    /\ rv.pc = "insert" =>
                          /\ review'[r].pc = "resolution"
                          /\ labels' = labels \cup {[seq |-> review'[r].seq, uri |-> rv.uri,
                                                     val |-> CV, neg |-> TRUE]}
                          /\ review'[r].seq \notin Seqs(labels)
                    /\ rv.pc = "bcast" =>
                          /\ ClearLabel(r) \in labels
                          /\ Receivers # {} => sent' = Append(sent, ClearLabel(r))
                          /\ review'[r].pc = "loop"
                          /\ review'[r].resolved_count = rv.resolved_count + 1]_vars

\* C37 witness: a request has counted a clear decision for a target that is
\* no member of its batch; the negating label is stored and was sent to the
\* attached subscriber, and no batch is completed.
C37_Witness ==
    \E r \in Reviewers :
        /\ review[r].pc = "loop" /\ review[r].resolved_count = 1
        /\ ~IsMember(review[r].batch, "A")
        /\ batches[review[r].batch] = "pending"
        /\ \E row \in labels : /\ row.neg /\ row.uri = "A"
                               /\ \E i \in 1..Len(sent) : sent[i] = row

(***************************************************************************)
(* get_active_labels against concurrent appends.                           *)
(***************************************************************************)
\* C38: every target a get_active_labels call returns was an active target
\* (asserted and not negated) in some state the log had between the call's
\* first read and its return. (One emission task appends, so these states are
\* the log of the first read and its extensions by sequence number.)
C38_ActiveInSomeState ==
    [][(reader.pc = "pos" /\ reader'.pc = "done") =>
          \A u \in reader'.result :
              \E k \in 0..MaxSeq :
                  LET L == reader.log0 \cup {r \in labels : r.seq <= k}
                  IN  HasAssert(L, u) /\ ~HasNeg(L, u)]_vars

(***************************************************************************)
(* Concurrent reviews of one batch.                                        *)
(***************************************************************************)
\* C39: when every submit_review request has returned, none with an error,
\* and every member of a batch is reviewed, the batch is completed, whatever
\* the order in which the requests marked members and checked for pending
\* ones.
C39_ConcurrentReviewsComplete ==
    \A b \in BatchIds :
        (/\ \A r \in Reviewers : review[r].pc \in {"idle", "ok"}
         /\ MembersOf(batch_flags, b) # {}
         /\ \A f \in MembersOf(batch_flags, b) : f.reviewed)
        => batches[b] = "completed"

\* C39 witness: two requests on the same batch have each processed one
\* decision, both members are reviewed, one request has found no pending
\* member and the other has not checked yet.
C39_Witness ==
    \E r, q \in Reviewers :
        /\ r # q
        /\ review[r].batch = "b1" /\ review[q].batch = "b1"
        /\ review[r].pc = "update" /\ review[r].n = 1
        /\ review[q].pc = "loop" /\ review[q].n = 1
        /\ \E f, g \in MembersOf(batch_flags, "b1") :
              /\ f.uri = "A" /\ g.uri = "B" /\ f.reviewed /\ g.reviewed
              /\ f.decision # g.decision

(***************************************************************************)
(* Reviewing a member again.                                               *)
(***************************************************************************)
\* C40: a submit_review request is let into its decision loop whatever the
\* status of its batch, completed included; a decision naming a member that
\* is already reviewed leaves it reviewed and records the new decision in
\* place of the old one; and a clear decision for a target that already has
\* a negating label stores one more under a new sequence number.
C40_ReviewAgain ==
    [][\A r \in Reviewers :
          LET rv == review[r]
          IN  /\ (rv.pc = "get" /\ review'[r] # rv /\ batches[rv.batch] # "none") =>
                    review'[r].pc = "loop"
              /\ \A u \in Uris, d \in Decisions :
                    ReviewMark(r, u, d) =>
                        /\ review'[r].pc = IF d = "clear" THEN "store" ELSE "loop"
                        /\ \A f \in batch_flags :
                              (f.batch_id = rv.batch /\ f.uri = u /\ f.reviewed) =>
                                  /\ [f EXCEPT !.decision = d] \in batch_flags'
                                  /\ \A g \in batch_flags' :
                                        (g.batch_id = f.batch_id /\ g.uri = f.uri) =>
                                            g.reviewed /\ g.decision = d
              /\ (rv.pc = "insert" /\ review'[r].pc = "resolution"
                      /\ HasNeg(labels, rv.uri)) =>
                    \E row \in labels' \ labels :
                        /\ labels' = labels \cup {row}
                        /\ row.uri = rv.uri /\ row.val = CV /\ row.neg
                        /\ row.seq \notin Seqs(labels)]_vars

\* C40 witness: a request on a batch that was completed before has processed
\* a clear decision for the member that was cleared before: the target has
\* two negating labels, the member is reviewed with decision clear.
C40_Witness ==
    \E r \in Reviewers :
        /\ review[r].pc = "loop" /\ review[r].n = 1 /\ review[r].resolved_count = 1
        /\ batches[review[r].batch] = "completed"
        /\ \E f \in MembersOf(batch_flags, review[r].batch) :
              f.uri = "A" /\ f.reviewed /\ f.decision = "clear"
        /\ Cardinality({row \in labels : row.uri = "A" /\ row.neg}) = 2

====
